---- MODULE Spec2Model ----
(***************************************************************************)
(* State-machine model of the Infinity pricing engine: the calculators     *)
(* FairPricing, CapacitorModel, ALCMarket and DynamicPricing, and the      *)
(* PriceBroadcaster of the wiring layer.                                   *)
(*                                                                         *)
(* Numbers.  The JavaScript code computes in IEEE doubles; the model       *)
(* computes the same expressions exactly, in fixed point:                  *)
(*   - FairPricing prices held in priceHistory are integers in units of    *)
(*     1/Unit of a cent (Unit = 4^MaxCalls), so that every 25% step of a   *)
(*     price that was entered in whole cents at most MaxCalls calls ago    *)
(*     is an exact integer;                                                *)
(*   - values that went through toFixed(2) are integers in cents;          *)
(*   - toFixed rounds to nearest; where the exact value lies half way      *)
(*     between two results the double's representation error decides, so   *)
(*     the model allows both results.                                      *)
(***************************************************************************)
EXTENDS Integers, Sequences, FiniteSets, TLC

VARIABLES
    priceHistory,    \* FairPricing.priceHistory, prices in 1/Unit cents
    fairnessScore,   \* FairPricing.fairnessScore, in hundredths
    fpRet,           \* the value returned by the last FairPricing call
    fpSteps,         \* number of validatePrice calls made since Init
    fpArgs,          \* the arguments of the last FairPricing call
    dmSeq,           \* argument of a stand-alone detectManipulation call
    dmRet,           \* the value detectManipulation returned for dmSeq
    charge,          \* CapacitorModel.charge, in 1/10000
    balanceThreshold,\* CapacitorModel.balanceThreshold, in 1/10000
    capRet,          \* the value returned by the last CapacitorModel call
    capArgs,         \* the arguments of the last CapacitorModel call
    abCalls,         \* autoBalance calls since the last charge or discharge
    currentValue,    \* ALCMarket.currentValue, in 1/MarketUnit USD
    trendPercent,    \* ALCMarket.trendPercent, in percent
    volatility,      \* ALCMarket.volatility, in halves
    baseValue,       \* config.current_usd_value, in 1/MarketUnit USD
    mkRet,           \* the value returned by the last ALCMarket call
    mkArgs,          \* the arguments of the last ALCMarket call
    mkSteps,         \* number of ALCMarket calls made since Init
    earn_rates,      \* config.earn_rates, ALC per activity
    spend_costs,     \* config.spend_costs, ALC per item
    demandMultiplier,\* DynamicPricing.demandMultiplier, a fraction num / den
    dpPriceHistory,  \* DynamicPricing.priceHistory
    dpRet,           \* the value returned by the last DynamicPricing call
    dpArgs,          \* the arguments of the last DynamicPricing call
    broadcastTargets,\* PriceBroadcaster.broadcastTargets, target -> config
    sentUpdates,     \* PriceBroadcaster.sentUpdates
    now,             \* Date.now(), in minutes
    dominoConfigured,\* config.domino_effect.threshold, in hundredths
    pbRet,           \* the value returned by the last PriceBroadcaster call
    pbArgs,          \* the arguments of the last PriceBroadcaster call
    pbSteps,         \* number of PriceBroadcaster calls made since Init
    signalHandlers,  \* PriceReceiver.signalHandlers, key -> handler name
    receivedSignals, \* PriceReceiver.receivedSignals
    prRet,           \* the value returned by the last PriceReceiver call
    prArgs,          \* the arguments of the last PriceReceiver call
    prSteps,         \* number of PriceReceiver calls made since Init
    hydrogenBonds,   \* HydrogenSync.hydrogenBonds
    syncQueue,       \* HydrogenSync.syncQueue
    hsRet,           \* the value returned by the last HydrogenSync call
    hsArgs,          \* the arguments of the last HydrogenSync call
    hsSteps          \* number of HydrogenSync calls made since Init

fpVars == <<priceHistory, fairnessScore, fpRet, fpSteps, fpArgs>>
dmVars == <<dmSeq, dmRet>>
capVars == <<charge, balanceThreshold, capRet, capArgs, abCalls>>
mkVars == <<currentValue, trendPercent, volatility, baseValue, mkRet, mkArgs,
            mkSteps, earn_rates, spend_costs>>
dpVars == <<demandMultiplier, dpPriceHistory, dpRet, dpArgs>>
pbVars == <<broadcastTargets, sentUpdates, now, dominoConfigured, pbRet,
            pbArgs, pbSteps>>
prVars == <<signalHandlers, receivedSignals, prRet, prArgs, prSteps>>
hsVars == <<hydrogenBonds, syncQueue, hsRet, hsArgs, hsSteps>>
vars == <<fpVars, dmVars, capVars, mkVars, dpVars, pbVars, prVars, hsVars>>

-----------------------------------------------------------------------------
(* Bounds of the model *)

\* validatePrice calls explored after the initial state
MaxCalls == 3

\* longest sequence handed to a stand-alone detectManipulation call
MaxSeqLen == 7

\* ALCMarket calls explored after the initial state
MaxMarketSteps == 3

\* consecutive autoBalance calls explored
MaxBalanceCalls == 26

\* PriceBroadcaster calls explored after the initial state
MaxBroadcastCalls == 2

\* the last minute of the clock
MaxTime == 7

\* PriceReceiver calls explored after the initial state
MaxReceiverCalls == 2

\* HydrogenSync calls explored after the initial state
MaxSyncCalls == 4

\* bonds createBond is called for
MaxBonds == 2

\* longest syncQueue built by queueSync
MaxQueue == 3

\* the last minute of the clock while HydrogenSync runs
MaxSyncTime == 2

-----------------------------------------------------------------------------
(* Arithmetic helpers *)

Abs(x) == IF x < 0 THEN 0 - x ELSE x

Max2(a, b) == IF a > b THEN a ELSE b

RECURSIVE Pow4(_)
Pow4(n) == IF n = 0 THEN 1 ELSE 4 * Pow4(n - 1)

\* price units per cent
Unit == Pow4(MaxCalls)

RECURSIVE SeqSum(_)
SeqSum(s) == IF s = <<>> THEN 0 ELSE Head(s) + SeqSum(Tail(s))

RECURSIVE SeqMax(_)
SeqMax(s) == IF Len(s) = 1 THEN s[1] ELSE Max2(s[1], SeqMax(Tail(s)))

RECURSIVE SeqMin(_)
SeqMin(s) == IF Len(s) = 1 THEN s[1]
             ELSE LET m == SeqMin(Tail(s)) IN IF s[1] < m THEN s[1] ELSE m

\* Number.prototype.toFixed: num/den (den > 0, num >= 0) rounded to the
\* nearest integer; an exact half may come out either way.
RoundNearest(num, den) ==
    LET q == num \div den
        r == num % den
    IN  IF 2 * r < den THEN {q}
        ELSE IF 2 * r > den THEN {q + 1}
        ELSE {q, q + 1}

\* Array.prototype.slice(-n)
LastN(s, n) == IF Len(s) <= n THEN s ELSE SubSeq(s, Len(s) - n + 1, Len(s))

-----------------------------------------------------------------------------
(* FairPricing: constructor constants *)

\* priceFloor = 0.01 ALC, in cents
PriceFloorCents == 1

\* priceCeiling = 10000 ALC, in cents
PriceCeilingCents == 1000000

\* maxChangeRate = 0.25 = 1 / MaxChangeRateDen
MaxChangeRateDen == 4

\* priceHistory keeps the last 100 prices
HistoryCap == 100

\* penaltyPerIssue = 0.2, in hundredths
PenaltyPerIssue == 20

priceFloor == PriceFloorCents * Unit
priceCeiling == PriceCeilingCents * Unit

-----------------------------------------------------------------------------
(* FairPricing.validatePrice *)

\* lines 23-27: the floor check, on the price as given
AfterFloor(price) == IF price < priceFloor THEN priceFloor ELSE price

\* faulty variant of BoundedPrice: the ceiling check left out
BoundedPriceNoCeiling(price) == AfterFloor(price)

\* lines 23-33: the two bounds checks in sequence
BoundedPrice(price) ==
    IF AfterFloor(price) > priceCeiling THEN priceCeiling ELSE AfterFloor(price)

BoundIssues(price) ==
    (IF price < priceFloor THEN <<"price_too_low">> ELSE <<>>)
    \o (IF AfterFloor(price) > priceCeiling THEN <<"price_too_high">> ELSE <<>>)

\* lastPrice * maxChangeRate; lastPrice is a multiple of 4 whenever fewer
\* than MaxCalls limited steps separate it from a price in whole cents
MaxChange(lastPrice) == lastPrice \div MaxChangeRateDen

\* lines 36-40: changeRate > maxChangeRate, for the positive lastPrice the
\* history holds: |p - last| / last > 1/4  iff  |p - last| > last / 4.
\* The set of results the comparison can have: where the exact change is
\* 25% the rounding of the double quotient decides.
TooRapid(hist, p) ==
    IF Len(hist) = 0 THEN {FALSE}
    ELSE IF Abs(p - hist[Len(hist)]) > MaxChange(hist[Len(hist)]) THEN {TRUE}
    ELSE IF Abs(p - hist[Len(hist)]) < MaxChange(hist[Len(hist)]) THEN {FALSE}
    ELSE BOOLEAN

\* faulty variant of LimitedPrice: the limited step never assigned
LimitedPriceUnlimited(hist, p) == p

\* lines 45-48: the step limited to maxChangeRate, in the direction proposed
LimitedPrice(hist, p) ==
    LET lastPrice == hist[Len(hist)]
    IN  IF p > lastPrice THEN lastPrice + MaxChange(lastPrice)
        ELSE lastPrice - MaxChange(lastPrice)

\* the price validatePrice records for `price`; rapid is the result of the
\* change-rate comparison
AcceptedPrice(hist, price, rapid) ==
    IF rapid THEN LimitedPrice(hist, BoundedPrice(price))
    ELSE BoundedPrice(price)

ValidateIssues(price, rapid) ==
    BoundIssues(price)
    \o (IF rapid THEN <<"price_change_too_rapid">> ELSE <<>>)

\* faulty variant of PushHistory: pop() in place of shift()
PushHistoryDropNewest(hist, p) ==
    IF Len(Append(hist, p)) > HistoryCap THEN hist ELSE Append(hist, p)

\* lines 53-56: push, then shift once the length exceeds 100
PushHistory(hist, p) ==
    IF Len(Append(hist, p)) > HistoryCap THEN Tail(Append(hist, p))
    ELSE Append(hist, p)

\* faulty variant of CalculateFairnessScore: the penalty taken off the stored score
CalculateFairnessScoreCumulative(issues) ==
    Max2(fairnessScore - Len(issues) * PenaltyPerIssue, 0)

\* calculateFairnessScore: Math.max(1.0 - issues.length * 0.2, 0), hundredths
CalculateFairnessScore(issues) == Max2(100 - Len(issues) * PenaltyPerIssue, 0)

\* price.toFixed(2) of a positive price, in cents
ToFixed2(p) == RoundNearest(p, Unit)

\* Every outcome of validatePrice(price) on history hist: the new history,
\* the new fairnessScore and the returned record.
ValidateResult(hist, price, rapid, v) ==
    [ hist  |-> PushHistory(hist, AcceptedPrice(hist, price, rapid)),
      score |-> CalculateFairnessScore(ValidateIssues(price, rapid)),
      ret   |-> [ op              |-> "validatePrice",
                  validated_price |-> v,
                  is_fair         |-> Len(ValidateIssues(price, rapid)) = 0,
                  issues          |-> ValidateIssues(price, rapid),
                  fairness_score  |->
                      CalculateFairnessScore(ValidateIssues(price, rapid)) ] ]

ValidateOutcomes(hist, price) ==
    UNION { { ValidateResult(hist, price, rapid, v)
              : v \in ToFixed2(AcceptedPrice(hist, price, rapid)) }
            : rapid \in TooRapid(hist, BoundedPrice(price)) }

-----------------------------------------------------------------------------
(* FairPricing.ensureFairMarket, prices in cents *)

\* marketAverage of an empty list is 0/0 = NaN, shown as "NaN"
NaN == 0 - 1

\* deviation threshold 0.3 = DeviationNum / DeviationDen
DeviationNum == 3
DeviationDen == 10

\* a field of marketData: <<>> when absent, <<v>> when given
FieldOr(field, default) == IF field = <<>> THEN default ELSE field[1]

\* faulty variant of AllPrices: filter(p => p) in place of filter(p => p > 0)
AllPricesTruthy(proposedPrice, marketData) ==
    SelectSeq(<<FieldOr(marketData.averagePrice, proposedPrice),
                FieldOr(marketData.medianPrice, proposedPrice)>>
              \o marketData.competitorPrices,
              LAMBDA p : p # 0)

\* lines 81-89: defaults, then the positive entries only
AllPrices(proposedPrice, marketData) ==
    SelectSeq(<<FieldOr(marketData.averagePrice, proposedPrice),
                FieldOr(marketData.medianPrice, proposedPrice)>>
              \o marketData.competitorPrices,
              LAMBDA p : p > 0)

\* deviation > 0.3 with deviation = |proposed - sum/n| / (sum/n), sum > 0:
\* 10 * |n * proposed - sum| > 3 * sum.  The set of results the comparison
\* can have: where the exact deviation is 0.3 the rounding of the double
\* quotient decides (0.3 itself is not a double).
DeviationTooHigh(proposedPrice, prices) ==
    LET d == Abs(Len(prices) * proposedPrice - SeqSum(prices))
        s == SeqSum(prices)
    IN  IF DeviationDen * d > DeviationNum * s THEN {TRUE}
        ELSE IF DeviationDen * d < DeviationNum * s THEN {FALSE}
        ELSE BOOLEAN

\* (deviation * 100).toFixed(1), in tenths of a percent
DeviationPercent(proposedPrice, prices) ==
    LET d == Abs(Len(prices) * proposedPrice - SeqSum(prices))
        s == SeqSum(prices)
    IN  { (d \div s) * 1000 + r : r \in RoundNearest((d % s) * 1000, s) }

EnsureFairMarket(proposedPrice, marketData) ==
    LET prices == AllPrices(proposedPrice, marketData)
    IN  IF prices = <<>>
        THEN \* NaN > 0.3 is false
             { [ op |-> "ensureFairMarket",
                 price |-> proposedPrice, market_average |-> NaN,
                 deviation_percent |-> NaN, fair_market_confirmed |-> TRUE,
                 reason |-> "within_acceptable_market_range" ] }
        ELSE { IF high
               THEN [ op |-> "ensureFairMarket",
                      original_price |-> proposedPrice, market_average |-> m,
                      adjusted_price |-> m, deviation_percent |-> dp,
                      adjusted |-> TRUE,
                      reason |-> "aligned_with_market_consensus" ]
               ELSE [ op |-> "ensureFairMarket",
                      price |-> proposedPrice, market_average |-> m,
                      deviation_percent |-> dp, fair_market_confirmed |-> TRUE,
                      reason |-> "within_acceptable_market_range" ]
               : high \in DeviationTooHigh(proposedPrice, prices),
                 m \in RoundNearest(SeqSum(prices), Len(prices)),
                 dp \in DeviationPercent(proposedPrice, prices) }

-----------------------------------------------------------------------------
(* FairPricing.detectManipulation *)

\* fewer than 5 samples: insufficient_data
MinSamples == 5

\* consecutiveIncreases >= 5
RunThreshold == 5

\* faulty variant of IncreaseLoop: the counter not reset by a non-increase
RECURSIVE IncreaseLoopNoReset(_, _, _)
IncreaseLoopNoReset(seq, i, consecutiveIncreases) ==
    IF i > Len(seq) THEN 0
    ELSE LET c == IF seq[i] > seq[i - 1] THEN consecutiveIncreases + 1
                  ELSE consecutiveIncreases
         IN  IF c >= RunThreshold THEN 1 ELSE IncreaseLoopNoReset(seq, i + 1, c)

\* lines 126-138: the loop from index i on, with the counter's value so far;
\* 1 when the loop reaches the threshold (and breaks), 0 when it runs out
RECURSIVE IncreaseLoop(_, _, _)
IncreaseLoop(seq, i, consecutiveIncreases) ==
    IF i > Len(seq) THEN 0
    ELSE LET c == IF seq[i] > seq[i - 1] THEN consecutiveIncreases + 1 ELSE 0
         IN  IF c >= RunThreshold THEN 1 ELSE IncreaseLoop(seq, i + 1, c)

\* lines 141-147: (max - min) / min > 0.5; a zero min divides to Infinity
\* (or NaN when max is zero too), a negative min to a negative quotient
VolatilitySpike(seq) ==
    IF SeqMin(seq) > 0 THEN 2 * (SeqMax(seq) - SeqMin(seq)) > SeqMin(seq)
    ELSE IF SeqMin(seq) = 0 THEN SeqMax(seq) > 0
    ELSE FALSE

SuspiciousPatterns(seq) ==
    IncreaseLoop(seq, 2, 0) + (IF VolatilitySpike(seq) THEN 1 ELSE 0)

DetectManipulation(priceSequence) ==
    IF Len(priceSequence) < MinSamples
    THEN [ manipulation_detected |-> FALSE, confidence |-> "insufficient_data" ]
    ELSE [ manipulation_detected |-> SuspiciousPatterns(priceSequence) > 0,
           suspicious_patterns   |-> SuspiciousPatterns(priceSequence),
           confidence            |->
               IF SuspiciousPatterns(priceSequence) > 1 THEN "high"
               ELSE IF SuspiciousPatterns(priceSequence) > 0 THEN "medium"
               ELSE "low",
           recommendation        |->
               IF SuspiciousPatterns(priceSequence) > 0
               THEN "manual_review_required" ELSE "pricing_appears_fair" ]

-----------------------------------------------------------------------------
(* FairPricing.applyFairPricing *)

\* context.marketData || {}
NoMarketData ==
    [ averagePrice |-> <<>>, medianPrice |-> <<>>, competitorPrices |-> <<>> ]

\* recentPrices = priceHistory.slice(-10)
RecentWindow == 10

\* faulty variant of ApplyResult: the market-adjusted price written over the
\* entry validatePrice recorded
ApplyResultRecordsFairPrice(price, o, mc) ==
    [ hist  |-> IF "adjusted_price" \in DOMAIN mc
                THEN [ o.hist EXCEPT ![Len(o.hist)] = mc.adjusted_price * Unit ]
                ELSE o.hist,
      score |-> o.score,
      ret   |-> [ op                 |-> "applyFairPricing",
                  input_price        |-> price,
                  fair_price         |-> IF "adjusted_price" \in DOMAIN mc
                                         THEN mc.adjusted_price ELSE mc.price,
                  validation         |-> o.ret,
                  market_check       |-> mc,
                  manipulation_check |->
                      DetectManipulation(LastN(o.hist, RecentWindow)) ] ]

\* Every outcome of applyFairPricing(price, {marketData}) on history hist.
ApplyResult(price, o, mc) ==
    [ hist  |-> o.hist,
      score |-> o.score,
      ret   |-> [ op                 |-> "applyFairPricing",
                  input_price        |-> price,
                  \* marketCheck.adjusted_price || marketCheck.price: the
                  \* adjusted price is a non-empty string, hence truthy
                  fair_price         |-> IF "adjusted_price" \in DOMAIN mc
                                         THEN mc.adjusted_price ELSE mc.price,
                  validation         |-> o.ret,
                  market_check       |-> mc,
                  manipulation_check |->
                      DetectManipulation(LastN(o.hist, RecentWindow)) ] ]

ApplyOutcomes(hist, price, marketData) ==
    UNION { { ApplyResult(price, o, mc)
              : mc \in EnsureFairMarket(o.ret.validated_price, marketData) }
            : o \in ValidateOutcomes(hist, price) }

-----------------------------------------------------------------------------
(* Inputs explored *)

\* prices handed to validatePrice / applyFairPricing, in cents: negative,
\* the floor, small, ordinary, and beyond the ceiling
PriceInputsCents == {0 - 500, 2, 100, 125, 2000000}

PriceInputs == { c * Unit : c \in PriceInputsCents }

\* marketData handed to applyFairPricing
ApplyMarketData ==
    { NoMarketData,
      [ averagePrice |-> <<1000>>, medianPrice |-> <<1000>>,
        competitorPrices |-> <<>> ],
      [ averagePrice |-> <<100>>, medianPrice |-> <<>>,
        competitorPrices |-> <<110, 0>> ] }

\* arguments of stand-alone ensureFairMarket calls, in cents
ProposedInputs == {0, 100, 130, 131}

EnsureMarketData ==
    { NoMarketData,
      [ averagePrice |-> <<50>>, medianPrice |-> <<50>>,
        competitorPrices |-> <<>> ],
      [ averagePrice |-> <<100>>, medianPrice |-> <<100>>,
        competitorPrices |-> <<>> ],
      [ averagePrice |-> <<100>>, medianPrice |-> <<101>>,
        competitorPrices |-> <<>> ],
      [ averagePrice |-> <<100>>, medianPrice |-> <<>>,
        competitorPrices |-> <<100, 101, 0 - 5>> ],
      [ averagePrice |-> <<0>>, medianPrice |-> <<50>>,
        competitorPrices |-> <<50, 51>> ] }

\* the price entered by the calls that precede the initial state
SeedPrice == 100 * Unit

\* numbers of validatePrice(1.00) calls that precede the initial state
SeedCalls == {0, HistoryCap - 1}

SeedHistory(n) == [ i \in 1..n |-> SeedPrice ]

-----------------------------------------------------------------------------
(* FairPricing: the state machine *)

NoCall == [ op |-> "none" ]

\* the state after n validatePrice(1.00) calls on a new instance
InitFair ==
    /\ fpSteps = 0
    /\ \E n \in SeedCalls :
          /\ priceHistory = SeedHistory(n)
          /\ fairnessScore = 100           \* constructor, lines 7-13
          /\ fpRet = IF n = 0 THEN NoCall
                     ELSE [ op |-> "validatePrice", validated_price |-> 100,
                            is_fair |-> TRUE, issues |-> <<>>,
                            fairness_score |-> 100 ]
          /\ fpArgs = IF n = 0 THEN NoCall
                      ELSE [ op |-> "validatePrice", price |-> SeedPrice ]

ValidatePrice ==
    /\ fpSteps < MaxCalls
    /\ \E price \in PriceInputs :
       \E o \in ValidateOutcomes(priceHistory, price) :
          /\ priceHistory' = o.hist
          /\ fairnessScore' = o.score
          /\ fpRet' = o.ret
          /\ fpArgs' = [ op |-> "validatePrice", price |-> price ]
    /\ fpSteps' = fpSteps + 1
    /\ UNCHANGED <<dmVars, capVars, mkVars, dpVars, pbVars, prVars,
                   hsVars>>

ApplyFairPricing ==
    /\ fpSteps < MaxCalls
    /\ \E price \in PriceInputs, md \in ApplyMarketData :
       \E o \in ApplyOutcomes(priceHistory, price, md) :
          /\ priceHistory' = o.hist
          /\ fairnessScore' = o.score
          /\ fpRet' = o.ret
          /\ fpArgs' = [ op |-> "applyFairPricing", price |-> price,
                         marketData |-> md ]
    /\ fpSteps' = fpSteps + 1
    /\ UNCHANGED <<dmVars, capVars, mkVars, dpVars, pbVars, prVars,
                   hsVars>>

EnsureFairMarketCall ==
    /\ \E proposed \in ProposedInputs, md \in EnsureMarketData :
          /\ fpRet' \in EnsureFairMarket(proposed, md)
          /\ fpArgs' = [ op |-> "ensureFairMarket", proposedPrice |-> proposed,
                         marketData |-> md ]
    /\ UNCHANGED <<priceHistory, fairnessScore, fpSteps>>
    /\ UNCHANGED <<dmVars, capVars, mkVars, dpVars, pbVars, prVars,
                   hsVars>>

NextFair == ValidatePrice \/ ApplyFairPricing \/ EnsureFairMarketCall

-----------------------------------------------------------------------------
(* detectManipulation as a function of its argument *)

\* first sample of the sequences explored
DetectStarts == {4, 100}

\* the sequence that starts at `start` and moves by steps[1], steps[2], ...
RECURSIVE Walk(_, _)
Walk(start, steps) ==
    IF steps = <<>> THEN <<start>>
    ELSE <<start>> \o Walk(start + Head(steps), Tail(steps))

DetectInputs ==
    {<<>>} \cup
    UNION { { Walk(start, steps) : steps \in [1..n -> {0 - 1, 0, 1}] }
            : start \in DetectStarts, n \in 0..(MaxSeqLen - 1) }

InitDetect ==
    /\ dmSeq \in DetectInputs
    /\ dmRet = NoCall

DetectManipulationCall ==
    /\ dmRet = NoCall
    /\ dmRet' = DetectManipulation(dmSeq)
    /\ UNCHANGED <<dmSeq, fpVars, capVars, mkVars, dpVars, pbVars, prVars,
                   hsVars>>

NextDetect == DetectManipulationCall

-----------------------------------------------------------------------------
(* CapacitorModel, charge in units of 1/10000 *)

\* maxCharge = 1.0
MaxCharge == 10000

\* constructor: charge = 0.5
InitialCharge == 5000

\* balance_threshold || 0.75
DefaultBalanceThreshold == 7500

\* chargeRate = 0.05: charge units per hundredth of activity level
ChargeRate == 5

\* dischargeRate = 0.1: charge units per hundredth of purchase size
DischargeRate == 10

\* autoBalance: targetCharge = 0.5, balanceRate = 0.02
TargetCharge == 5000
BalanceRate == 200

Min2(a, b) == IF a < b THEN a ELSE b

\* faulty variant of AccumulatedCharge: the Math.min clamp left out
AccumulatedChargeNoClamp(c, activityLevel) == c + activityLevel * ChargeRate

\* line 20-21: Math.min(charge + activityLevel * chargeRate, maxCharge)
AccumulatedCharge(c, activityLevel) ==
    Min2(c + activityLevel * ChargeRate, MaxCharge)

\* line 37-38: Math.max(charge - purchaseSize * dischargeRate, 0)
DischargedCharge(c, purchaseSize) ==
    Max2(c - purchaseSize * DischargeRate, 0)

\* faulty variant of BalancedCharge: the step not limited to the distance left
BalancedChargeFullStep(c) ==
    IF c > TargetCharge THEN c - BalanceRate
    ELSE IF c < TargetCharge THEN c + BalanceRate
    ELSE c

\* faulty variant of BalancedCharge: a tenth of the distance per call
BalancedChargeExponential(c) == c + (TargetCharge - c) \div 10

\* lines 142-146
BalancedCharge(c) ==
    IF c > TargetCharge THEN c - Min2(c - TargetCharge, BalanceRate)
    ELSE IF c < TargetCharge THEN c + Min2(TargetCharge - c, BalanceRate)
    ELSE c

GetChargeStatus(c, threshold) ==
    IF c > threshold THEN "high_charge"
    ELSE IF c < MaxCharge - threshold THEN "low_charge"
    ELSE "balanced"

\* the multiplier before toFixed(3), in units of 1/100000:
\* 1 + (charge - threshold) * 0.2 and 1 - ((1 - threshold) - charge) * 0.2
RawMultiplier(c, threshold) ==
    IF GetChargeStatus(c, threshold) = "high_charge"
    THEN 100000 + (c - threshold) * 2
    ELSE IF GetChargeStatus(c, threshold) = "low_charge"
    THEN 100000 - ((MaxCharge - threshold) - c) * 2
    ELSE 100000

\* getPriceImpact: the set of records it can return (multiplier in 1/1000)
GetPriceImpact(c, threshold) ==
    { [ type       |-> IF GetChargeStatus(c, threshold) = "high_charge"
                       THEN "increase"
                       ELSE IF GetChargeStatus(c, threshold) = "low_charge"
                       THEN "decrease" ELSE "stable",
        multiplier |-> m ]
      : m \in RoundNearest(RawMultiplier(c, threshold), 100) }

\* faulty variant of CapacitorPricing: the raw multiplier applied
CapacitorPricingUnrounded(c, threshold, basePrice) ==
    { [ op |-> "applyCapacitorPricing",
        base_price |-> basePrice,
        capacitor_charge |-> cur,
        charge_status |-> GetChargeStatus(c, threshold),
        price_multiplier |-> impact.multiplier,
        adjusted_price |-> adj,
        pricing_model |-> "capacitor_discharge",
        fair_pricing |-> IF impact.type = "stable" THEN "guaranteed"
                         ELSE "dynamic" ]
      : <<impact, cur, adj>> \in
          UNION { { <<i, cu, a>> :
                      cu \in RoundNearest(c, 10),
                      a \in RoundNearest(basePrice * RawMultiplier(c, threshold),
                                         100000) }
                  : i \in GetPriceImpact(c, threshold) } }

\* lines 100-114: the records applyCapacitorPricing may return; basePrice and
\* adjusted_price in cents, the multiplier is parseFloat of the three-decimal
\* string getPriceImpact returned
CapacitorPricing(c, threshold, basePrice) ==
    { [ op |-> "applyCapacitorPricing",
        base_price |-> basePrice,
        capacitor_charge |-> cur,
        charge_status |-> GetChargeStatus(c, threshold),
        price_multiplier |-> impact.multiplier,
        adjusted_price |-> adj,
        pricing_model |-> "capacitor_discharge",
        fair_pricing |-> IF impact.type = "stable" THEN "guaranteed"
                         ELSE "dynamic" ]
      : <<impact, cur, adj>> \in
          UNION { { <<i, cu, a>> :
                      cu \in RoundNearest(c, 10),
                      a \in RoundNearest(basePrice * i.multiplier, 1000) }
                  : i \in GetPriceImpact(c, threshold) } }

\* basePrice explored, in cents: 0, 1.00, 3.33, 90.00
BasePriceInputs == {0, 100, 333, 9000}

\* activityLevel and purchaseSize explored, in hundredths (both are
\* normalised values 0-1)
ActivityInputs == {0, 10, 50, 100}
PurchaseInputs == {0, 10, 50, 100}

\* balance thresholds a configuration may set
ThresholdChoices == {DefaultBalanceThreshold, 6000, 6020}

InitCap ==
    /\ charge = InitialCharge
    /\ balanceThreshold \in ThresholdChoices
    /\ capRet = [ op |-> "none" ]
    /\ capArgs = [ op |-> "none" ]
    /\ abCalls = 0

AccumulateCharge ==
    /\ \E activityLevel \in ActivityInputs :
          /\ charge' = AccumulatedCharge(charge, activityLevel)
          /\ capArgs' = [ op |-> "accumulateCharge",
                          activityLevel |-> activityLevel ]
          /\ \E cur \in RoundNearest(charge', 10),
                impact \in GetPriceImpact(charge', balanceThreshold) :
                capRet' = [ op |-> "accumulateCharge",
                            activity_level  |-> activityLevel,
                            charge_increase |-> activityLevel * ChargeRate,
                            current_charge  |-> cur,
                            status |-> GetChargeStatus(charge', balanceThreshold),
                            price_impact |-> impact ]
    /\ abCalls' = 0
    /\ UNCHANGED <<balanceThreshold, fpVars, dmVars, mkVars, dpVars, pbVars, prVars,
                   hsVars>>

DischargeOnPurchase ==
    /\ \E purchaseSize \in PurchaseInputs :
          /\ charge' = DischargedCharge(charge, purchaseSize)
          /\ capArgs' = [ op |-> "dischargeOnPurchase",
                          purchaseSize |-> purchaseSize ]
          /\ \E cur \in RoundNearest(charge', 10),
                impact \in GetPriceImpact(charge', balanceThreshold) :
                capRet' = [ op |-> "dischargeOnPurchase",
                            purchase_size    |-> purchaseSize,
                            discharge_amount |-> purchaseSize * DischargeRate,
                            remaining_charge |-> cur,
                            status |-> GetChargeStatus(charge', balanceThreshold),
                            price_impact |-> impact ]
    /\ abCalls' = 0
    /\ UNCHANGED <<balanceThreshold, fpVars, dmVars, mkVars, dpVars, pbVars, prVars,
                   hsVars>>

AutoBalance ==
    /\ abCalls < MaxBalanceCalls
    /\ charge' = BalancedCharge(charge)
    /\ capArgs' = [ op |-> "autoBalance", charge_before |-> charge ]
    /\ abCalls' = abCalls + 1
    /\ \E cur \in RoundNearest(charge', 10) :
          capRet' = [ op |-> "autoBalance",
                      target_charge  |-> TargetCharge,
                      current_charge |-> cur,
                      auto_balancing |-> TRUE,
                      status |-> "maintaining_fair_pricing" ]
    /\ UNCHANGED <<balanceThreshold, fpVars, dmVars, mkVars, dpVars, pbVars, prVars,
                   hsVars>>

\* lines 100-114
ApplyCapacitorPricing ==
    /\ \E basePrice \in BasePriceInputs :
          /\ capArgs' = [ op |-> "applyCapacitorPricing",
                          basePrice |-> basePrice ]
          /\ capRet' \in CapacitorPricing(charge, balanceThreshold, basePrice)
    /\ UNCHANGED <<charge, balanceThreshold, abCalls, fpVars, dmVars, mkVars, dpVars, pbVars, prVars,
                   hsVars>>

NextCap ==
    \/ AccumulateCharge
    \/ DischargeOnPurchase
    \/ AutoBalance
    \/ ApplyCapacitorPricing

\* any charge a run of accumulateCharge / dischargeOnPurchase calls can leave
\* (steps of 0.005 up and 0.01 down from 0.5)
ChargeLevels == { 50 * k : k \in 0..(MaxCharge \div 50) }

\* the capacitor somewhere in its range, about to be left to autoBalance
InitBalance ==
    /\ charge \in ChargeLevels
    /\ balanceThreshold \in ThresholdChoices
    /\ capRet = [ op |-> "none" ]
    /\ capArgs = [ op |-> "none" ]
    /\ abCalls = 0

\* autoBalance calls only
NextBalance == AutoBalance

-----------------------------------------------------------------------------
(* ALCMarket.  Values in units of 1/MarketUnit USD; the supply/demand ratio  *)
(* and the volatility in halves, so that an adjustment is a number of        *)
(* quarters.  MarketUnit makes every product and quotient of up to           *)
(* MaxMarketSteps calls an exact integer.                                    *)

RECURSIVE Pow20(_)
Pow20(n) == IF n = 0 THEN 1 ELSE 20 * Pow20(n - 1)

\* units per USD
MarketUnit == 2 * Pow20(MaxMarketSteps)

\* stabilizationRate = 0.1 = 1 / StabilizationDen
StabilizationDen == 10

\* faulty variant of AdjustedValue: the adjustment subtracted
AdjustedValueInverted(value, ratio, vol) ==
    value - (value * ((ratio - 2) * vol)) \div 4

\* faulty variant of AdjustedValue: = in place of +=
AdjustedValueAssigned(value, ratio, vol) ==
    (value * ((ratio - 2) * vol)) \div 4

\* lines 69-70: currentValue += currentValue * (ratio - 1) * volatility,
\* ratio and vol in halves
AdjustedValue(value, ratio, vol) == value + (value * ((ratio - 2) * vol)) \div 4

\* line 73: ((currentValue - oldValue) / oldValue) * 100
TrendOf(oldValue, newValue) == ((newValue - oldValue) * 100) \div oldValue

\* line 79
MarketCondition(ratio) ==
    IF ratio > 2 THEN "high_demand"
    ELSE IF ratio < 2 THEN "abundant_supply"
    ELSE "stable"

\* faulty variant of StabilizedValue: the current value not subtracted
StabilizedValueTowardsSum(value, target) ==
    value + target \div StabilizationDen

\* line 91: currentValue += (targetValue - currentValue) * stabilizationRate
StabilizedValue(value, target) == value + (target - value) \div StabilizationDen

\* value.toFixed(2) of a positive value, in cents
MarketToFixed2(value) == RoundNearest(value * 100, MarketUnit)

\* supplyDemandRatio explored, in halves: 0.5, 1, 1.5, 2
RatioInputs == {1, 2, 3, 4}

(* Rate tables.  The configuration is parsed from JSON (README line 170), so *)
(* earn_rates and spend_costs are plain objects: a property read finds the   *)
(* table's own entry, else a member inherited from Object.prototype, else    *)
(* undefined.                                                                *)

\* names every plain object inherits (a few of them)
ObjectPrototypeKeys == {"constructor", "toString", "__proto__"}

Undefined == [ kind |-> "undefined" ]

\* a function or object inherited from Object.prototype
Inherited == [ kind |-> "object" ]

Num(n) == [ kind |-> "number", value |-> n ]

\* table[key]
GetProperty(table, key) ==
    IF key \in DOMAIN table THEN Num(table[key])
    ELSE IF key \in ObjectPrototypeKeys THEN Inherited
    ELSE Undefined

\* what if (!x) lets through
Truthy(x) == x.kind = "object" \/ (x.kind = "number" /\ x.value # 0)

\* (rate * currentValue).toFixed(2), in cents; "NaN" when rate is no number
UsdValue(rate, value) ==
    IF rate.kind = "number"
    THEN RoundNearest(rate.value * value, MarketUnit \div 100)
    ELSE {NaN}

\* lines 30-42: the records calculateEarnings may return
EarningsResult(table, activityType, value) ==
    LET rate == GetProperty(table, activityType)
    IN  IF ~Truthy(rate)
        THEN { [ op |-> "calculateEarnings", error |-> activityType ] }
        ELSE { [ op |-> "calculateEarnings",
                 activity |-> activityType,
                 alc_earned |-> rate,
                 usd_value |-> u,
                 message |-> <<"Earned", rate, activityType>> ]
               : u \in UsdValue(rate, value) }

\* lines 47-59: the records calculateCost may return
CostResult(table, itemType, value) ==
    LET cost == GetProperty(table, itemType)
    IN  IF ~Truthy(cost)
        THEN { [ op |-> "calculateCost", error |-> itemType ] }
        ELSE { [ op |-> "calculateCost",
                 item |-> itemType,
                 alc_cost |-> cost,
                 usd_value |-> u,
                 message |-> <<itemType, "costs", cost>> ]
               : u \in UsdValue(cost, value) }

\* earn rates a configuration may set: the README's, and one with a zero rate
EarnRateChoices ==
    { [ build_feature |-> 10, fix_bug |-> 7 ],
      [ build_feature |-> 10, fix_bug |-> 0 ] }

\* spend costs a configuration may set: the README's, and one with a zero cost
SpendCostChoices ==
    { [ premium_theme |-> 50, custom_art |-> 20 ],
      [ premium_theme |-> 50, custom_art |-> 0 ] }

\* activity keys asked for: configured, not configured, inherited name
ActivityTypes == {"build_feature", "fix_bug", "mine_coins", "constructor"}

\* item keys asked for: configured, not configured, inherited name
ItemTypes == {"premium_theme", "custom_art", "yacht", "toString"}

\* market_forces.volatility a configuration may set, in halves: 0.5, 1
VolatilityChoices == {1, 2}

\* current_usd_value a configuration may set: 0.50 USD, 1 USD
BaseValueChoices == {MarketUnit \div 2, MarketUnit}

InitMarket ==
    /\ baseValue \in BaseValueChoices
    /\ currentValue = baseValue
    /\ volatility \in VolatilityChoices
    /\ trendPercent = 0
    /\ mkRet = [ op |-> "none" ]
    /\ mkArgs = [ op |-> "none" ]
    /\ mkSteps = 0
    /\ earn_rates \in EarnRateChoices
    /\ spend_costs \in SpendCostChoices

AdjustMarketValue ==
    /\ mkSteps < MaxMarketSteps
    /\ \E ratio \in RatioInputs :
          /\ currentValue' = AdjustedValue(currentValue, ratio, volatility)
          /\ trendPercent' = TrendOf(currentValue, currentValue')
          /\ mkArgs' = [ op |-> "adjustMarketValue",
                         supplyDemandRatio |-> ratio ]
          /\ \E old \in MarketToFixed2(currentValue),
                new \in MarketToFixed2(currentValue') :
                mkRet' = [ op |-> "adjustMarketValue",
                           old_value |-> old,
                           new_value |-> new,
                           change_percent |-> trendPercent',
                           market_condition |-> MarketCondition(ratio) ]
    /\ mkSteps' = mkSteps + 1
    /\ UNCHANGED <<volatility, baseValue, earn_rates, spend_costs,
                   fpVars, dmVars, capVars, dpVars, pbVars, prVars,
                   hsVars>>

StabilizeMarket ==
    /\ mkSteps < MaxMarketSteps
    /\ currentValue' = StabilizedValue(currentValue, baseValue)
    /\ mkArgs' = [ op |-> "stabilizeMarket" ]
    /\ \E v \in MarketToFixed2(currentValue'),
          t \in MarketToFixed2(baseValue) :
          mkRet' = [ op |-> "stabilizeMarket",
                     stabilized_value |-> v,
                     target_value |-> t,
                     status |-> "stabilizing_via_mongoose_learning" ]
    /\ mkSteps' = mkSteps + 1
    /\ UNCHANGED <<trendPercent, volatility, baseValue, earn_rates, spend_costs,
                   fpVars, dmVars, capVars, dpVars, pbVars, prVars,
                   hsVars>>

\* lines 30-42
CalculateEarnings ==
    /\ \E activityType \in ActivityTypes :
          /\ mkArgs' = [ op |-> "calculateEarnings",
                         activityType |-> activityType ]
          /\ mkRet' \in EarningsResult(earn_rates, activityType, currentValue)
    /\ UNCHANGED <<currentValue, trendPercent, volatility, baseValue, mkSteps,
                   earn_rates, spend_costs, fpVars, dmVars, capVars, dpVars, pbVars, prVars,
                   hsVars>>

\* lines 47-59
CalculateCost ==
    /\ \E itemType \in ItemTypes :
          /\ mkArgs' = [ op |-> "calculateCost", itemType |-> itemType ]
          /\ mkRet' \in CostResult(spend_costs, itemType, currentValue)
    /\ UNCHANGED <<currentValue, trendPercent, volatility, baseValue, mkSteps,
                   earn_rates, spend_costs, fpVars, dmVars, capVars, dpVars, pbVars, prVars,
                   hsVars>>

NextMarket ==
    \/ AdjustMarketValue
    \/ StabilizeMarket
    \/ CalculateEarnings
    \/ CalculateCost

-----------------------------------------------------------------------------
(* DynamicPricing.  A categorical table is an object literal, read with      *)
(* table[key] || default; ALC amounts are integers unless a unit is named.   *)

\* the result of arithmetic on something that is no number
NotANumber == [ kind |-> "NaN" ]

\* string concatenation, what + does with a function operand
AString == [ kind |-> "string" ]

\* x || d
OrDefault(x, d) == IF Truthy(x) THEN x ELSE Num(d)

\* a * b
Times(a, b) ==
    IF a.kind = "number" /\ b.kind = "number" THEN Num(a.value * b.value)
    ELSE NotANumber

\* a + b
Plus(a, b) ==
    IF a.kind = "number" /\ b.kind = "number" THEN Num(a.value + b.value)
    ELSE AString

\* Math.round of x / den, x >= 0: halves go up
MathRound(x, den) ==
    IF x.kind = "number" THEN Num((2 * x.value + den) \div (2 * den))
    ELSE NotANumber

\* lines 22-26
ComplexityRates == [ low |-> 5, medium |-> 10, high |-> 20 ]

\* lines 28-32, in tenths
DemandMultipliers == [ low |-> 8, normal |-> 10, high |-> 15 ]

\* lines 59-63
TypeMultipliers == [ standard |-> 1, premium |-> 2, limited |-> 3 ]

\* lines 65-69
UtilityRates == [ low |-> 5, medium |-> 10, high |-> 20 ]

\* lines 97-102
TierPricing == [ free |-> 0, basic |-> 10, premium |-> 50, enterprise |-> 200 ]

\* lines 104-108
SupportCosts == [ community |-> 0, priority |-> 15, dedicated |-> 50 ]

\* lines 15-47; a parameter is <<>> when absent and <<v>> when given
CalculateArtPrice(params) ==
    LET complexity == FieldOr(params.complexity, "medium")
        timeSpent  == FieldOr(params.timeSpent, 1)
        demand     == FieldOr(params.demand, "normal")
        baseRate   == OrDefault(GetProperty(ComplexityRates, complexity), 10)
        \* demandMultipliers[demand] || 1.0, in tenths
        demandFactor == OrDefault(GetProperty(DemandMultipliers, demand), 10)
        price == Times(Times(baseRate, Num(timeSpent)), demandFactor)
    IN  [ op |-> "calculateArtPrice",
          base_alc |-> baseRate,
          time_spent_hours |-> timeSpent,
          complexity_level |-> complexity,
          demand_level |-> demand,
          final_price_alc |-> MathRound(price, 10) ]

\* line 73: scarcity < 100 ? 2.0 : scarcity < 500 ? 1.5 : 1.0, in halves
ScarcityBonus(scarcity) ==
    IF scarcity < 100 THEN 4 ELSE IF scarcity < 500 THEN 3 ELSE 2

\* lines 52-85
CalculateTokenValue(params) ==
    LET type     == FieldOr(params.type, "standard")
        utility  == FieldOr(params.utility, "medium")
        scarcity == FieldOr(params.scarcity, 1000)
        baseValueAlc   == OrDefault(GetProperty(UtilityRates, utility), 10)
        typeMultiplier == OrDefault(GetProperty(TypeMultipliers, type), 1)
        tokenValue == Times(Times(baseValueAlc, typeMultiplier),
                            Num(ScarcityBonus(scarcity)))
    IN  [ op |-> "calculateTokenValue",
          token_type |-> type,
          utility_level |-> utility,
          total_supply |-> scarcity,
          scarcity_bonus |-> ScarcityBonus(scarcity),
          base_value_alc |-> MathRound(tokenValue, 2) ]

\* lines 90-125; features is the length of the array
CalculateFeatureCost(params) ==
    LET tier     == FieldOr(params.tier, "free")
        features == FieldOr(params.features, 0)
        support  == FieldOr(params.support, "community")
        baseCost    == OrDefault(GetProperty(TierPricing, tier), 0)
        supportCost == OrDefault(GetProperty(SupportCosts, support), 0)
    IN  [ op |-> "calculateFeatureCost",
          tier_level |-> tier,
          base_cost_alc |-> baseCost,
          support_type |-> support,
          support_cost_alc |-> supportCost,
          feature_count |-> features,
          total_cost_alc |-> Plus(Plus(baseCost, supportCost),
                                  Num(features * 5)),
          monthly_subscription |-> tier # "free" ]

\* lines 130-145; the amount in 1/100 ALC, so the 1% fee is a number of
\* 1/10000 ALC and the minimum fee 0.1 ALC is 1000 of them; the results of
\* toFixed(2) in 1/100 ALC
CalculateTransactionFee(transactionAmount) ==
    { [ op |-> "calculateTransactionFee",
        transaction_amount_alc |-> transactionAmount,
        calculated_fee_alc |-> c,
        actual_fee_alc |-> a ]
      : c \in RoundNearest(transactionAmount, 100),
        a \in RoundNearest(Max2(transactionAmount, 1000), 100) }

\* faulty variant of DemandMultiplierOf: the activity multiplier left out
DemandMultiplierNoActivity(supply, demand, recentActivity) ==
    [ num |-> demand, den |-> supply ]

\* lines 157-160: (demand / supply) * (1 + recentActivity / 1000) as a
\* fraction; supply, demand and recentActivity in hundreds
DemandMultiplierOf(supply, demand, recentActivity) ==
    [ num |-> demand * (10 + recentActivity), den |-> supply * 10 ]

\* lines 157-169: supplyDemandRatio > 1.2, < 0.8
MarketState(supply, demand) ==
    IF 10 * demand > 12 * supply THEN "high_demand"
    ELSE IF 10 * demand < 8 * supply THEN "low_demand"
    ELSE "balanced"

\* lines 150-170: the records adjustRealTime may return for the multiplier m
\* it stored
AdjustRealTimeResult(supply, demand, recentActivity, m) ==
    { [ op |-> "adjustRealTime",
        supply_level |-> supply,
        demand_level |-> demand,
        recent_activity |-> recentActivity,
        demand_multiplier |-> d,
        market_state |-> MarketState(supply, demand) ]
      : d \in RoundNearest(100 * m.num, m.den) }

\* lines 175-196, integer prices; deviation > 0.25 is 4 * |p - m| > m, and
\* adjusted_price = m * (1 +- 0.25), in quarters
ValidateFairPricing(price, marketAverage) ==
    IF 4 * Abs(price - marketAverage) > marketAverage
    THEN { [ op |-> "validateFairPricing",
             original_price |-> price,
             market_average |-> marketAverage,
             adjusted_price |-> IF price > marketAverage
                                THEN 5 * marketAverage ELSE 3 * marketAverage,
             fair_pricing_enforced |-> TRUE ] }
    ELSE { [ op |-> "validateFairPricing",
             price |-> price,
             market_average |-> marketAverage,
             deviation_percent |-> d,
             fair_pricing_verified |-> TRUE ]
           : d \in RoundNearest(1000 * Abs(price - marketAverage),
                                marketAverage) }

\* parameters explored: absent, known, unknown, and names an object inherits
ComplexityInputs == {<<>>, <<"high">>, <<"extreme">>, <<"constructor">>}
TimeSpentInputs == {<<>>, <<3>>}
DemandInputs == {<<>>, <<"high">>, <<"low">>, <<"surge">>, <<"toString">>}
TokenTypeInputs == {<<>>, <<"limited">>, <<"golden">>, <<"__proto__">>}
UtilityInputs == {<<>>, <<"high">>, <<"huge">>}
ScarcityInputs == {<<>>, <<50>>, <<100>>, <<499>>}
TierInputs == {<<>>, <<"premium">>, <<"gold">>}
FeatureCountInputs == {<<>>, <<2>>}
SupportInputs == {<<>>, <<"priority">>, <<"psychic">>}
FeeAmountInputs == {0, 500, 1000, 1050, 123450}
\* supply, demand, recentActivity in hundreds
SupplyInputs == {<<>>, <<5>>, <<20>>}
DemandLevelInputs == {<<>>, <<6>>, <<12>>, <<16>>}
ActivityLevelInputs == {<<>>, <<0>>, <<5>>}
FairPriceInputs == {75, 100, 125, 126, 200}
MarketAverageInputs == {100}

\* lines 7-10
InitDynamic ==
    /\ dpPriceHistory = <<>>
    /\ demandMultiplier = [ num |-> 1, den |-> 1 ]
    /\ dpRet = [ op |-> "none" ]
    /\ dpArgs = [ op |-> "none" ]

CalculateArtPriceCall ==
    /\ \E c \in ComplexityInputs, t \in TimeSpentInputs, d \in DemandInputs :
          LET params == [ complexity |-> c, timeSpent |-> t, demand |-> d ]
          IN  /\ dpArgs' = [ op |-> "calculateArtPrice", params |-> params ]
              /\ dpRet' = CalculateArtPrice(params)
    /\ UNCHANGED <<demandMultiplier, dpPriceHistory,
                   fpVars, dmVars, capVars, mkVars, pbVars, prVars,
                   hsVars>>

CalculateTokenValueCall ==
    /\ \E t \in TokenTypeInputs, u \in UtilityInputs, sc \in ScarcityInputs :
          LET params == [ type |-> t, utility |-> u, scarcity |-> sc ]
          IN  /\ dpArgs' = [ op |-> "calculateTokenValue", params |-> params ]
              /\ dpRet' = CalculateTokenValue(params)
    /\ UNCHANGED <<demandMultiplier, dpPriceHistory,
                   fpVars, dmVars, capVars, mkVars, pbVars, prVars,
                   hsVars>>

CalculateFeatureCostCall ==
    /\ \E t \in TierInputs, f \in FeatureCountInputs, su \in SupportInputs :
          LET params == [ tier |-> t, features |-> f, support |-> su ]
          IN  /\ dpArgs' = [ op |-> "calculateFeatureCost", params |-> params ]
              /\ dpRet' = CalculateFeatureCost(params)
    /\ UNCHANGED <<demandMultiplier, dpPriceHistory,
                   fpVars, dmVars, capVars, mkVars, pbVars, prVars,
                   hsVars>>

CalculateTransactionFeeCall ==
    /\ \E amount \in FeeAmountInputs :
          /\ dpArgs' = [ op |-> "calculateTransactionFee",
                         transactionAmount |-> amount ]
          /\ dpRet' \in CalculateTransactionFee(amount)
    /\ UNCHANGED <<demandMultiplier, dpPriceHistory,
                   fpVars, dmVars, capVars, mkVars, pbVars, prVars,
                   hsVars>>

AdjustRealTime ==
    /\ \E su \in SupplyInputs, d \in DemandLevelInputs,
          a \in ActivityLevelInputs :
          \* defaults 1000, 1000 and 100
          LET supply == FieldOr(su, 10)
              demand == FieldOr(d, 10)
              recentActivity == FieldOr(a, 1)
          IN  /\ demandMultiplier' =
                    DemandMultiplierOf(supply, demand, recentActivity)
              /\ dpArgs' = [ op |-> "adjustRealTime", supply |-> supply,
                             demand |-> demand,
                             recentActivity |-> recentActivity ]
              /\ dpRet' \in AdjustRealTimeResult(supply, demand, recentActivity,
                                                 demandMultiplier')
    /\ UNCHANGED <<dpPriceHistory, fpVars, dmVars, capVars, mkVars, pbVars, prVars,
                   hsVars>>

ValidateFairPricingCall ==
    /\ \E price \in FairPriceInputs, avg \in MarketAverageInputs :
          /\ dpArgs' = [ op |-> "validateFairPricing", price |-> price,
                         marketAverage |-> avg ]
          /\ dpRet' \in ValidateFairPricing(price, avg)
    /\ UNCHANGED <<demandMultiplier, dpPriceHistory,
                   fpVars, dmVars, capVars, mkVars, pbVars, prVars,
                   hsVars>>

NextDynamic ==
    \/ CalculateArtPriceCall
    \/ CalculateTokenValueCall
    \/ CalculateFeatureCostCall
    \/ CalculateTransactionFeeCall
    \/ AdjustRealTime
    \/ ValidateFairPricingCall

-----------------------------------------------------------------------------
(* PriceBroadcaster.  Date.now() is the variable now, in minutes; change     *)
(* fractions such as the domino threshold 0.05 are in hundredths.            *)

\* sentUpdates keeps the last 100 updates
SentCap == 100

\* 5 * 60 * 1000 ms
FiveMinutes == 5

\* domino_effect.threshold || 0.05
DefaultDominoThreshold == 5

\* config.sends_updates, in the order the configuration lists the targets
SendsUpdates ==
    << [ target |-> "commerce", signal |-> "updated_prices",
         frequency |-> "real_time" ],
       [ target |-> "dash-hub", signal |-> "market_data",
         frequency |-> "every_5_minutes" ],
       [ target |-> "index-designer", signal |-> "catalog_values",
         frequency |-> "on_change" ],
       [ target |-> "ALL_REPOS", signal |-> "price_changes",
         frequency |-> "on_significant_change" ] >>

\* the keys of broadcastTargets, in insertion order
TargetOrder == [ i \in 1..Len(SendsUpdates) |-> SendsUpdates[i].target ]

TargetNames == { SendsUpdates[i].target : i \in 1..Len(SendsUpdates) }

\* setupTargets: lastSent null is <<>>, a timestamp t is <<t>>
SetupTargets ==
    [ t \in TargetNames |->
        LET e == SendsUpdates[CHOOSE i \in 1..Len(SendsUpdates) :
                                 SendsUpdates[i].target = t]
        IN  [ signal |-> e.signal, frequency |-> e.frequency,
              lastSent |-> <<>> ] ]

\* sentUpdates.push(update), then shift() when longer than 100
PushUpdate(updates, update) ==
    IF Len(Append(updates, update)) > SentCap THEN Tail(Append(updates, update))
    ELSE Append(updates, update)

\* broadcastUpdate(target, updateData) at time: the new broadcastTargets, the
\* new sentUpdates and the record returned
BroadcastUpdate(targets, updates, target, updateData, time) ==
    IF target \notin DOMAIN targets
    THEN [ targets |-> targets,
           updates |-> updates,
           ret |-> [ sent |-> FALSE, error |-> target,
                     available_targets |-> TargetOrder ] ]
    ELSE [ targets |-> [ targets EXCEPT ![target].lastSent = <<time>> ],
           updates |-> PushUpdate(updates,
                          [ target |-> target,
                            signal |-> targets[target].signal,
                            data |-> updateData,
                            timestamp |-> time,
                            frequency |-> targets[target].frequency ]),
           ret |-> [ sent |-> TRUE, target |-> target,
                     signal |-> targets[target].signal,
                     timestamp |-> time,
                     delivery |-> "via_hydrogen_bond",
                     propagation |-> "instant" ] ]

\* lastSent ? now - lastSent : Infinity, Infinity shown as <<>>
TimeSinceLastSent(targetConfig, time) ==
    IF targetConfig.lastSent = <<>> THEN <<>>
    ELSE <<time - targetConfig.lastSent[1]>>

\* faulty variant of ShouldSend: >= in place of > for every_5_minutes
ShouldSendAtFiveMinutes(targetConfig, data, forceUpdate, time) ==
    LET since == TimeSinceLastSent(targetConfig, time)
    IN  CASE targetConfig.frequency = "real_time" -> TRUE
          [] targetConfig.frequency = "every_5_minutes" ->
                forceUpdate \/ since = <<>> \/ since[1] >= FiveMinutes
          [] targetConfig.frequency = "on_change" ->
                forceUpdate \/ data.hasChanged
          [] targetConfig.frequency = "on_significant_change" ->
                forceUpdate \/ (data.changePercent # 0
                                  /\ Abs(data.changePercent) > 5)
          [] OTHER -> forceUpdate

\* the switch on targetConfig.frequency
ShouldSend(targetConfig, data, forceUpdate, time) ==
    LET since == TimeSinceLastSent(targetConfig, time)
    IN  CASE targetConfig.frequency = "real_time" -> TRUE
          [] targetConfig.frequency = "every_5_minutes" ->
                forceUpdate \/ since = <<>> \/ since[1] > FiveMinutes
          [] targetConfig.frequency = "on_change" ->
                forceUpdate \/ data.hasChanged
          [] targetConfig.frequency = "on_significant_change" ->
                forceUpdate \/ (data.changePercent # 0
                                  /\ Abs(data.changePercent) > 5)
          [] OTHER -> forceUpdate

\* conditionalBroadcast(target, data, forceUpdate) at time
ConditionalBroadcast(targets, updates, target, data, forceUpdate, time) ==
    IF target \notin DOMAIN targets
    THEN [ targets |-> targets, updates |-> updates,
           ret |-> [ sent |-> FALSE, error |-> "Unknown target" ] ]
    ELSE IF ShouldSend(targets[target], data, forceUpdate, time)
    THEN BroadcastUpdate(targets, updates, target, data, time)
    ELSE [ targets |-> targets, updates |-> updates,
           ret |-> [ sent |-> FALSE,
                     reason |-> "frequency_requirement_not_met",
                     target |-> target,
                     frequency |-> targets[target].frequency,
                     time_since_last |->
                         TimeSinceLastSent(targets[target], time) ] ]

\* this.config.domino_effect.threshold || 0.05: the configured value is
\* <<>> when absent, <<v>> when given
DominoThreshold(configured) ==
    IF configured = <<>> \/ configured[1] = 0 THEN DefaultDominoThreshold
    ELSE configured[1]

\* the forEach over broadcastTargets, from the i-th target on; acc carries
\* the targets, the updates and the results so far
RECURSIVE CascadeLoop(_, _, _, _)
CascadeLoop(acc, i, updateData, time) ==
    IF i > Len(TargetOrder) THEN acc
    ELSE LET b == BroadcastUpdate(acc.targets, acc.updates, TargetOrder[i],
                                  updateData, time)
         IN  CascadeLoop([ targets |-> b.targets, updates |-> b.updates,
                           results |-> Append(acc.results, b.ret) ],
                         i + 1, updateData, time)

\* Math.abs(changePercent) < threshold
BelowThreshold(changePercent, threshold) == Abs(changePercent) < threshold

\* cascadePriceUpdates(priceChangeData) at time
CascadePriceUpdates(targets, updates, priceChangeData, configured, time) ==
    IF BelowThreshold(priceChangeData.changePercent, DominoThreshold(configured))
    THEN [ targets |-> targets, updates |-> updates,
           ret |-> [ cascade_triggered |-> FALSE,
                     reason |-> "change_below_threshold",
                     threshold |-> DominoThreshold(configured),
                     actual_change |-> Abs(priceChangeData.changePercent) ] ]
    ELSE LET done == CascadeLoop([ targets |-> targets, updates |-> updates,
                                   results |-> <<>> ], 1,
                                 [ cascaded_update |-> TRUE,
                                   original_price |->
                                       priceChangeData.originalPrice,
                                   new_price |-> priceChangeData.newPrice,
                                   change_percent |->
                                       priceChangeData.changePercent,
                                   reason |-> priceChangeData.reason ],
                                 time)
         IN  [ targets |-> done.targets, updates |-> done.updates,
               ret |-> [ cascade_triggered |-> TRUE,
                         threshold_exceeded |-> TRUE,
                         targets_updated |-> Len(done.results),
                         results |-> done.results,
                         domino_effect |-> "price_adjusts_cascade_everywhere" ] ]

\* targets asked for: the configured ones and one that is not configured
TargetInputs == TargetNames \cup {"banksy"}

\* data handed to broadcastUpdate / conditionalBroadcast (changePercent in
\* percent)
DataInputs ==
    { [ hasChanged |-> FALSE, changePercent |-> 0 ],
      [ hasChanged |-> TRUE, changePercent |-> 6 ] }

\* (data, forceUpdate) handed to conditionalBroadcast: a forced update is
\* tried with the data that would not be sent on its own
ConditionalInputs ==
    { [ data |-> d, forceUpdate |-> FALSE ] : d \in DataInputs }
        \cup { [ data |-> [ hasChanged |-> FALSE, changePercent |-> 0 ],
                 forceUpdate |-> TRUE ] }

\* changePercent handed to cascadePriceUpdates, in hundredths: 0.03, 0.05,
\* -0.06
ChangeInputs == {3, 5, 0 - 6}

\* domino_effect.threshold a configuration may set: none, 0.06
DominoConfigChoices == {<<>>, <<6>>}

\* the update every broadcastUpdate('commerce', ...) call before the initial
\* state recorded, at minute 1
SeedUpdate ==
    [ target |-> "commerce", signal |-> "updated_prices",
      data |-> [ hasChanged |-> TRUE, changePercent |-> 6 ],
      timestamp |-> 1, frequency |-> "real_time" ]

\* broadcasts made before the initial state: none, or two short of the cap
SeedBroadcasts == {0, SentCap - 2}

\* the constructor, followed by n broadcastUpdate('commerce', ...) calls
InitBroadcaster ==
    /\ \E n \in SeedBroadcasts :
          /\ sentUpdates = [ i \in 1..n |-> SeedUpdate ]
          /\ broadcastTargets =
                IF n = 0 THEN SetupTargets
                ELSE [ SetupTargets EXCEPT !["commerce"].lastSent = <<1>> ]
    /\ now = 1
    /\ dominoConfigured \in DominoConfigChoices
    /\ pbRet = [ op |-> "none" ]
    /\ pbArgs = [ op |-> "none" ]
    /\ pbSteps = 0

\* time passes between calls
Tick ==
    /\ now < MaxTime
    /\ now' = now + 1
    /\ UNCHANGED <<broadcastTargets, sentUpdates, dominoConfigured, pbRet,
                   pbArgs, pbSteps, fpVars, dmVars, capVars, mkVars, dpVars, prVars,
                   hsVars>>

BroadcastUpdateCall ==
    /\ pbSteps < MaxBroadcastCalls
    /\ \E target \in {"dash-hub", "banksy"} :
          LET data == [ hasChanged |-> FALSE, changePercent |-> 0 ]
              b == BroadcastUpdate(broadcastTargets, sentUpdates, target,
                                   data, now)
          IN  /\ broadcastTargets' = b.targets
              /\ sentUpdates' = b.updates
              /\ pbRet' = b.ret
              /\ pbArgs' = [ op |-> "broadcastUpdate", target |-> target,
                             data |-> data ]
    /\ pbSteps' = pbSteps + 1
    /\ UNCHANGED <<now, dominoConfigured,
                   fpVars, dmVars, capVars, mkVars, dpVars, prVars,
                   hsVars>>

ConditionalBroadcastCall ==
    /\ pbSteps < MaxBroadcastCalls
    /\ \E target \in TargetInputs, in \in ConditionalInputs :
          LET data == in.data
              forceUpdate == in.forceUpdate
              b == ConditionalBroadcast(broadcastTargets, sentUpdates, target,
                                        data, forceUpdate, now)
          IN  /\ broadcastTargets' = b.targets
              /\ sentUpdates' = b.updates
              /\ pbRet' = b.ret
              /\ pbArgs' = [ op |-> "conditionalBroadcast",
                             target |-> target, data |-> data,
                             forceUpdate |-> forceUpdate ]
    /\ pbSteps' = pbSteps + 1
    /\ UNCHANGED <<now, dominoConfigured,
                   fpVars, dmVars, capVars, mkVars, dpVars, prVars,
                   hsVars>>

CascadePriceUpdatesCall ==
    /\ pbSteps < MaxBroadcastCalls
    /\ \E changePercent \in ChangeInputs :
          LET priceChangeData ==
                  [ originalPrice |-> 100, newPrice |-> 100 + changePercent,
                    changePercent |-> changePercent,
                    reason |-> "market_adjustment" ]
              c == CascadePriceUpdates(broadcastTargets, sentUpdates,
                                       priceChangeData, dominoConfigured, now)
          IN  /\ broadcastTargets' = c.targets
              /\ sentUpdates' = c.updates
              /\ pbRet' = c.ret
              /\ pbArgs' = [ op |-> "cascadePriceUpdates",
                             priceChangeData |-> priceChangeData ]
    /\ pbSteps' = pbSteps + 1
    /\ UNCHANGED <<now, dominoConfigured,
                   fpVars, dmVars, capVars, mkVars, dpVars, prVars,
                   hsVars>>

NextBroadcaster ==
    \/ Tick
    \/ BroadcastUpdateCall
    \/ ConditionalBroadcastCall
    \/ CascadePriceUpdatesCall

\* the broadcaster as constructed, never called
IdleBroadcaster ==
    /\ broadcastTargets = SetupTargets
    /\ sentUpdates = <<>>
    /\ now = 1
    /\ dominoConfigured = <<>>
    /\ pbRet = [ op |-> "none" ]
    /\ pbArgs = [ op |-> "none" ]
    /\ pbSteps = 0

-----------------------------------------------------------------------------
(* PriceReceiver.  A value that may be undefined is a sequence of length    *)
(* at most one.                                                              *)

\* line 50: receivedSignals keeps the last 100 signals
SignalCap == 100

\* config.receives_signals: the README's four signals, each with the handler
\* method written for it
ReceivesSignals ==
    << [ source |-> "commerce", event |-> "purchase_made",
         handler |-> <<"updatePriceOnPurchase">> ],
       [ source |-> "banksy", event |-> "art_created",
         handler |-> <<"calculateArtPrice">> ],
       [ source |-> "token-mint", event |-> "new_token",
         handler |-> <<"mintTokenPrice">> ],
       [ source |-> "dash-hub", event |-> "economy_status",
         handler |-> <<"adjustMarketForces">> ] >>

\* a configuration entry that names no handler
NoHandlerSignal ==
    [ source |-> "index-designer", event |-> "catalog_request",
      handler |-> <<>> ]

\* configurations: the README's, and the README's with the entry above
ReceiverConfigChoices == { ReceivesSignals, Append(ReceivesSignals, NoHandlerSignal) }

\* line 19, 29: `${source}:${event}`
HandlerKey(source, event) == source \o ":" \o event

\* line 17-21: signalHandlers.set(key, signal.handler) for every entry, a
\* later entry replacing an earlier one with the same key
SetupHandlers(config) ==
    [ k \in { HandlerKey(config[i].source, config[i].event) :
                i \in DOMAIN config } |->
        LET last == CHOOSE i \in DOMAIN config :
                      /\ HandlerKey(config[i].source, config[i].event) = k
                      /\ \A j \in DOMAIN config :
                            HandlerKey(config[j].source, config[j].event) = k
                              => j <= i
        IN  config[last].handler ]

\* line 30: signalHandlers.get(handlerKey)
HandlerName(handlers, key) ==
    IF key \in DOMAIN handlers THEN handlers[key] ELSE <<>>

\* line 32: what if (!handlerName) rejects is undefined and ''
HasHandler(handlerName) == handlerName # <<>> /\ handlerName # <<"">>

\* faulty variant of RecordSignal: the newest signal dropped at the cap
RecordSignalDropNewest(signals, entry) ==
    LET pushed == Append(signals, entry)
    IN  IF Len(pushed) > SignalCap THEN signals ELSE pushed

\* line 41-52: push, then shift once the length exceeds 100
RecordSignal(signals, entry) ==
    LET pushed == Append(signals, entry)
    IN  IF Len(pushed) > SignalCap THEN Tail(pushed) ELSE pushed

\* line 26-62: receiveSignal(signal); signal.timestamp defaults to Date.now()
ReceiveSignal(handlers, signals, signal, time) ==
    LET timestamp == IF signal.timestamp = <<>> THEN time
                     ELSE signal.timestamp[1]
        handlerKey == HandlerKey(signal.source, signal.event)
        handlerName == HandlerName(handlers, handlerKey)
    IN  IF ~HasHandler(handlerName)
        THEN [ signals |-> signals,
               ret |-> [ received |-> FALSE,
                         error |-> "No handler for " \o handlerKey,
                         available_handlers |-> DOMAIN handlers ] ]
        ELSE [ signals |->
                 RecordSignal(signals,
                              [ source |-> signal.source,
                                event |-> signal.event,
                                data |-> signal.data,
                                timestamp |-> timestamp,
                                handler |-> handlerName[1] ]),
               ret |-> [ received |-> TRUE,
                         source |-> signal.source,
                         event |-> signal.event,
                         handler |-> handlerName[1],
                         timestamp |-> timestamp,
                         status |-> "signal_received_via_hydrogen_bond" ] ]

\* line 143-159: the switch on received.handler; the four handler methods
\* only build a record from signal.data
HandlerResult(handler, data) ==
    IF handler \in { "updatePriceOnPurchase", "calculateArtPrice",
                     "mintTokenPrice", "adjustMarketForces" }
    THEN [ handler |-> handler, data |-> data ]
    ELSE [ error |-> "Handler not implemented" ]

\* line 135-167: processSignal(signal)
ProcessSignal(handlers, signals, signal, time) ==
    LET r == ReceiveSignal(handlers, signals, signal, time)
    IN  IF ~r.ret.received THEN r
        ELSE [ signals |-> r.signals,
               ret |-> [ signal_received |-> r.ret,
                         handler_result |->
                             HandlerResult(r.ret.handler, signal.data),
                         hydrogen_bond |-> "active",
                         propagation |-> "instant" ] ]

\* (source, event) of the signals received: two configured, one with an
\* event of another source, one whose entry names no handler
SignalSources ==
    { <<"commerce", "purchase_made">>, <<"banksy", "art_created">>,
      <<"commerce", "art_created">>, <<"index-designer", "catalog_request">> }

\* (data, timestamp) of the signals received
SignalPayloads ==
    { [ data |-> [ quantity |-> 1 ], timestamp |-> <<>> ],
      [ data |-> [ quantity |-> 2 ], timestamp |-> <<>> ],
      [ data |-> [ quantity |-> 2 ], timestamp |-> <<3>> ] }

\* the i-th signal received before the initial state
SeedSignal(i) ==
    [ source |-> "commerce", event |-> "purchase_made",
      data |-> [ quantity |-> 10 + i ], timestamp |-> 1,
      handler |-> "updatePriceOnPurchase" ]

\* signals received before the initial state: none, or one short of the cap
SeedSignals == {0, SignalCap - 1}

\* the constructor, followed by n receiveSignal calls from commerce
InitReceiver ==
    /\ \E config \in ReceiverConfigChoices :
          signalHandlers = SetupHandlers(config)
    /\ \E n \in SeedSignals :
          receivedSignals = [ i \in 1..n |-> SeedSignal(i) ]
    /\ prRet = [ op |-> "none" ]
    /\ prArgs = [ op |-> "none" ]
    /\ prSteps = 0

ReceiveSignalCall ==
    /\ prSteps < MaxReceiverCalls
    /\ \E s \in SignalSources, p \in SignalPayloads :
          LET signal == [ source |-> s[1], event |-> s[2], data |-> p.data,
                          timestamp |-> p.timestamp ]
              r == ReceiveSignal(signalHandlers, receivedSignals, signal, now)
          IN  /\ receivedSignals' = r.signals
              /\ prRet' = r.ret
              /\ prArgs' = [ op |-> "receiveSignal", signal |-> signal ]
    /\ prSteps' = prSteps + 1
    /\ UNCHANGED <<signalHandlers, fpVars, dmVars, capVars, mkVars, dpVars,
                   pbVars, hsVars>>

ProcessSignalCall ==
    /\ prSteps < MaxReceiverCalls
    /\ \E s \in SignalSources :
          LET signal == [ source |-> s[1], event |-> s[2],
                          data |-> [ quantity |-> 3 ], timestamp |-> <<>> ]
              r == ProcessSignal(signalHandlers, receivedSignals, signal, now)
          IN  /\ receivedSignals' = r.signals
              /\ prRet' = r.ret
              /\ prArgs' = [ op |-> "processSignal", signal |-> signal ]
    /\ prSteps' = prSteps + 1
    /\ UNCHANGED <<signalHandlers, fpVars, dmVars, capVars, mkVars, dpVars,
                   pbVars, hsVars>>

NextReceiver ==
    \/ ReceiveSignalCall
    \/ ProcessSignalCall

\* the receiver as constructed from the README's configuration, never called
IdleReceiver ==
    /\ signalHandlers = SetupHandlers(ReceivesSignals)
    /\ receivedSignals = <<>>
    /\ prRet = [ op |-> "none" ]
    /\ prArgs = [ op |-> "none" ]
    /\ prSteps = 0

-----------------------------------------------------------------------------
(* HydrogenSync.  hydrogenBonds and syncQueue are sequences in array order. *)

\* line 11: config.hydrogen_bonds.bond_strength || 'strong'
BondStrength == "strong"

\* line 20: `${source}-${target}-${Date.now()}`
BondId(source, target, time) ==
    source \o "-" \o target \o "-" \o ToString(time)

\* Array.prototype.find / findIndex: the first index that satisfies Test, 0
\* when none does
FirstIndex(seq, Test(_)) ==
    IF \E i \in DOMAIN seq : Test(seq[i])
    THEN CHOOSE i \in DOMAIN seq :
           Test(seq[i]) /\ \A j \in 1..(i - 1) : ~Test(seq[j])
    ELSE 0

\* hydrogenBonds.find(b => b.id === bondId)
FindBond(bonds, bondId) ==
    LET HasId(b) == b.id = bondId IN FirstIndex(bonds, HasId)

\* line 18-41: createBond(source, target)
CreateBond(bonds, source, target, time) ==
    LET bond == [ id |-> BondId(source, target, time),
                  source |-> source, target |-> target,
                  bondType |-> "bidirectional", strength |-> BondStrength,
                  created |-> time, active |-> TRUE, syncCount |-> 0 ]
    IN  [ bonds |-> Append(bonds, bond),
          ret |-> [ bond_created |-> TRUE, bond_id |-> bond.id,
                    source |-> source, target |-> target,
                    type |-> "bidirectional", strength |-> BondStrength,
                    status |-> "hydrogen_bond_active" ] ]

\* faulty variant of SyncViaHydrogenBond: the active test left out
SyncViaHydrogenBondAnyBond(bonds, bondId, data) ==
    LET i == FindBond(bonds, bondId)
    IN  IF i = 0
        THEN [ bonds |-> bonds,
               ret |-> [ synced |-> FALSE, error |-> "Bond not found",
                         bond_id |-> bondId ] ]
        ELSE [ bonds |-> [ bonds EXCEPT ![i].syncCount = @ + 1 ],
               ret |-> [ synced |-> TRUE, bond_id |-> bondId,
                         from |-> bonds[i].source, to |-> bonds[i].target,
                         data_synced |-> Cardinality(DOMAIN data),
                         propagation_speed |-> "instant",
                         propagation_time_ms |-> 0,
                         sync_count |-> bonds[i].syncCount + 1 ] ]

\* line 46-88: syncViaHydrogenBond(bondId, data)
SyncViaHydrogenBond(bonds, bondId, data) ==
    LET i == FindBond(bonds, bondId)
    IN  IF i = 0
        THEN [ bonds |-> bonds,
               ret |-> [ synced |-> FALSE, error |-> "Bond not found",
                         bond_id |-> bondId ] ]
        ELSE IF ~bonds[i].active
        THEN [ bonds |-> bonds,
               ret |-> [ synced |-> FALSE, error |-> "Bond inactive",
                         bond_id |-> bondId ] ]
        ELSE [ bonds |-> [ bonds EXCEPT ![i].syncCount = @ + 1 ],
               ret |-> [ synced |-> TRUE, bond_id |-> bondId,
                         from |-> bonds[i].source, to |-> bonds[i].target,
                         data_synced |-> Cardinality(DOMAIN data),
                         propagation_speed |-> "instant",
                         propagation_time_ms |-> 0,
                         sync_count |-> bonds[i].syncCount + 1 ] ]

\* line 108: priorityOrder
PriorityOrder == [ high |-> 0, normal |-> 1, low |-> 2 ]

\* one step of a stable sort: x goes behind every item that does not sort
\* after it
RECURSIVE InsertByPriority(_, _)
InsertByPriority(sorted, x) ==
    IF sorted = <<>> THEN <<x>>
    ELSE LET last == sorted[Len(sorted)]
         IN  IF PriorityOrder[last.priority] <= PriorityOrder[x.priority]
             THEN Append(sorted, x)
             ELSE Append(InsertByPriority(SubSeq(sorted, 1, Len(sorted) - 1),
                                          x),
                         last)

\* line 107-110: syncQueue.sort by priorityOrder; Array.prototype.sort is
\* stable
RECURSIVE SortByPriority(_)
SortByPriority(queue) ==
    IF queue = <<>> THEN <<>>
    ELSE InsertByPriority(SortByPriority(SubSeq(queue, 1, Len(queue) - 1)),
                          queue[Len(queue)])

\* line 93-119: queueSync(source, target, data, priority); serial stands for
\* the Math.random() that makes the item's id unique
QueueSync(queue, source, target, data, priority, time, serial) ==
    LET syncItem == [ id |-> <<time, serial>>, source |-> source,
                      target |-> target, data |-> data,
                      priority |-> priority, queued |-> time,
                      status |-> "queued" ]
        sorted == SortByPriority(Append(queue, syncItem))
        HasId(s) == s.id = syncItem.id
    IN  [ queue |-> sorted,
          ret |-> [ queued |-> TRUE, sync_id |-> syncItem.id,
                    position |-> FirstIndex(sorted, HasId),
                    queue_length |-> Len(sorted),
                    priority |-> priority ] ]

\* line 136-152: the forEach over toProcess
RECURSIVE ProcessLoop(_, _, _, _)
ProcessLoop(bonds, toProcess, results, time) ==
    IF toProcess = <<>> THEN [ bonds |-> bonds, results |-> results ]
    ELSE LET syncItem == toProcess[1]
             OfPair(b) == b.source = syncItem.source
                            /\ b.target = syncItem.target
             found == FirstIndex(bonds, OfPair)
             created == CreateBond(bonds, syncItem.source, syncItem.target,
                                   time)
             bonds1 == IF found = 0 THEN created.bonds ELSE bonds
             bond == IF found = 0
                     THEN bonds1[FindBond(bonds1, created.ret.bond_id)]
                     ELSE bonds[found]
             s == SyncViaHydrogenBond(bonds1, bond.id, syncItem.data)
         IN  ProcessLoop(s.bonds, Tail(toProcess),
                         Append(results, [ sync_id |-> syncItem.id,
                                           result |-> s.ret ]),
                         time)

\* line 124-160: processSyncQueue()
ProcessSyncQueue(bonds, queue, time) ==
    IF Len(queue) = 0
    THEN [ bonds |-> bonds, queue |-> queue,
           ret |-> [ processed |-> 0, message |-> "Queue empty" ] ]
    ELSE LET p == ProcessLoop(bonds, queue, <<>>, time)
         IN  [ bonds |-> p.bonds, queue |-> <<>>,
               ret |-> [ processed |-> Len(p.results),
                         results |-> p.results,
                         queue_cleared |-> TRUE,
                         propagation |-> "instant_via_hydrogen_bonds" ] ]

\* line 165-182, 187-203: strengthenBond / weakenBond set bond.strength
SetStrength(bonds, bondId, strength) ==
    LET i == FindBond(bonds, bondId)
    IN  IF i = 0
        THEN [ bonds |-> bonds, ret |-> [ error |-> "Bond not found" ] ]
        ELSE [ bonds |-> [ bonds EXCEPT ![i].strength = strength ],
               ret |-> [ bond_id |-> bondId,
                         old_strength |-> bonds[i].strength,
                         new_strength |-> strength ] ]

\* line 208-226: breakBond(bondId)
BreakBond(bonds, bondId) ==
    LET i == FindBond(bonds, bondId)
    IN  IF i = 0
        THEN [ bonds |-> bonds, ret |-> [ error |-> "Bond not found" ] ]
        ELSE [ bonds |-> [ bonds EXCEPT ![i].active = FALSE ],
               ret |-> [ bond_broken |-> TRUE, bond_id |-> bondId,
                         source |-> bonds[i].source,
                         target |-> bonds[i].target,
                         total_syncs |-> bonds[i].syncCount,
                         status |-> "bond_inactive" ] ]

\* line 270-293: testConnectivity(source, target)
TestConnectivity(bonds, source, target) ==
    LET ActiveOfPair(b) == b.source = source /\ b.target = target /\ b.active
        i == FirstIndex(bonds, ActiveOfPair)
        s == SyncViaHydrogenBond(bonds, bonds[i].id, [ test |-> TRUE ])
    IN  IF i = 0
        THEN [ bonds |-> bonds,
               ret |-> [ connected |-> FALSE,
                         message |-> "No active bond between components" ] ]
        ELSE [ bonds |-> s.bonds,
               ret |-> [ connected |-> TRUE, bond_id |-> bonds[i].id,
                         test_sync |-> IF s.ret.synced THEN "success"
                                       ELSE "failed",
                         propagation_speed |-> "instant",
                         bond_strength |-> bonds[i].strength,
                         reliability |-> "high" ] ]

\* (source, target) of the components bonded; the two pairs give the same
\* bond id when bonded at the same time
PairInputs ==
    { <<"pricing-engine", "commerce">>, <<"pricing", "engine-commerce">> }

\* bond ids handed to the operations that take one: those of the bonds made
\* so far and one never made
BondIdInputs(bonds) == { bonds[i].id : i \in DOMAIN bonds } \cup { "no-bond" }

PriorityInputs == { "high", "normal", "low" }

\* data handed to syncViaHydrogenBond and queueSync
SyncData == [ price |-> 100 ]

\* the constructor
InitHydrogen ==
    /\ hydrogenBonds = <<>>
    /\ syncQueue = <<>>
    /\ hsRet = [ op |-> "none" ]
    /\ hsArgs = [ op |-> "none" ]
    /\ hsSteps = 0

\* time passes between calls
TickSync ==
    /\ now < MaxSyncTime
    /\ now' = now + 1
    /\ UNCHANGED <<broadcastTargets, sentUpdates, dominoConfigured, pbRet,
                   pbArgs, pbSteps, fpVars, dmVars, capVars, mkVars, dpVars,
                   prVars, hsVars>>

CreateBondCall ==
    /\ hsSteps < MaxSyncCalls
    /\ Len(hydrogenBonds) < MaxBonds
    /\ \E pair \in PairInputs :
          LET c == CreateBond(hydrogenBonds, pair[1], pair[2], now)
          IN  /\ hydrogenBonds' = c.bonds
              /\ hsRet' = c.ret
              /\ hsArgs' = [ op |-> "createBond", source |-> pair[1],
                             target |-> pair[2] ]
    /\ hsSteps' = hsSteps + 1
    /\ UNCHANGED <<syncQueue, fpVars, dmVars, capVars, mkVars, dpVars,
                   pbVars, prVars>>

SyncViaHydrogenBondCall ==
    /\ hsSteps < MaxSyncCalls
    /\ \E bondId \in BondIdInputs(hydrogenBonds) :
          LET s == SyncViaHydrogenBond(hydrogenBonds, bondId, SyncData)
          IN  /\ hydrogenBonds' = s.bonds
              /\ hsRet' = s.ret
              /\ hsArgs' = [ op |-> "syncViaHydrogenBond",
                             bondId |-> bondId ]
    /\ hsSteps' = hsSteps + 1
    /\ UNCHANGED <<syncQueue, fpVars, dmVars, capVars, mkVars, dpVars,
                   pbVars, prVars>>

QueueSyncCall ==
    /\ hsSteps < MaxSyncCalls
    /\ Len(syncQueue) < MaxQueue
    /\ \E pair \in PairInputs, priority \in PriorityInputs :
          LET q == QueueSync(syncQueue, pair[1], pair[2], SyncData, priority,
                             now, hsSteps)
          IN  /\ syncQueue' = q.queue
              /\ hsRet' = q.ret
              /\ hsArgs' = [ op |-> "queueSync", source |-> pair[1],
                             target |-> pair[2], priority |-> priority ]
    /\ hsSteps' = hsSteps + 1
    /\ UNCHANGED <<hydrogenBonds, fpVars, dmVars, capVars, mkVars, dpVars,
                   pbVars, prVars>>

ProcessSyncQueueCall ==
    /\ hsSteps < MaxSyncCalls
    /\ LET p == ProcessSyncQueue(hydrogenBonds, syncQueue, now)
       IN  /\ hydrogenBonds' = p.bonds
           /\ syncQueue' = p.queue
           /\ hsRet' = p.ret
           /\ hsArgs' = [ op |-> "processSyncQueue" ]
    /\ hsSteps' = hsSteps + 1
    /\ UNCHANGED <<fpVars, dmVars, capVars, mkVars, dpVars, pbVars, prVars>>

StrengthenBondCall ==
    /\ hsSteps < MaxSyncCalls
    /\ \E bondId \in BondIdInputs(hydrogenBonds) :
          LET s == SetStrength(hydrogenBonds, bondId, "very_strong")
          IN  /\ hydrogenBonds' = s.bonds
              /\ hsRet' = s.ret
              /\ hsArgs' = [ op |-> "strengthenBond", bondId |-> bondId ]
    /\ hsSteps' = hsSteps + 1
    /\ UNCHANGED <<syncQueue, fpVars, dmVars, capVars, mkVars, dpVars,
                   pbVars, prVars>>

WeakenBondCall ==
    /\ hsSteps < MaxSyncCalls
    /\ \E bondId \in BondIdInputs(hydrogenBonds) :
          LET s == SetStrength(hydrogenBonds, bondId, "weak")
          IN  /\ hydrogenBonds' = s.bonds
              /\ hsRet' = s.ret
              /\ hsArgs' = [ op |-> "weakenBond", bondId |-> bondId ]
    /\ hsSteps' = hsSteps + 1
    /\ UNCHANGED <<syncQueue, fpVars, dmVars, capVars, mkVars, dpVars,
                   pbVars, prVars>>

BreakBondCall ==
    /\ hsSteps < MaxSyncCalls
    /\ \E bondId \in BondIdInputs(hydrogenBonds) :
          LET b == BreakBond(hydrogenBonds, bondId)
          IN  /\ hydrogenBonds' = b.bonds
              /\ hsRet' = b.ret
              /\ hsArgs' = [ op |-> "breakBond", bondId |-> bondId ]
    /\ hsSteps' = hsSteps + 1
    /\ UNCHANGED <<syncQueue, fpVars, dmVars, capVars, mkVars, dpVars,
                   pbVars, prVars>>

TestConnectivityCall ==
    /\ hsSteps < MaxSyncCalls
    /\ \E pair \in PairInputs :
          LET t == TestConnectivity(hydrogenBonds, pair[1], pair[2])
          IN  /\ hydrogenBonds' = t.bonds
              /\ hsRet' = t.ret
              /\ hsArgs' = [ op |-> "testConnectivity", source |-> pair[1],
                             target |-> pair[2] ]
    /\ hsSteps' = hsSteps + 1
    /\ UNCHANGED <<syncQueue, fpVars, dmVars, capVars, mkVars, dpVars,
                   pbVars, prVars>>

NextHydrogen ==
    \/ TickSync
    \/ CreateBondCall
    \/ SyncViaHydrogenBondCall
    \/ QueueSyncCall
    \/ ProcessSyncQueueCall
    \/ StrengthenBondCall
    \/ WeakenBondCall
    \/ BreakBondCall
    \/ TestConnectivityCall

\* the sync module as constructed, never called
IdleHydrogen == InitHydrogen

-----------------------------------------------------------------------------
(* Specifications: one per component, the others idle as constructed *)

IdleDetect == dmSeq = <<>> /\ dmRet = NoCall

IdleFair ==
    /\ priceHistory = <<>>
    /\ fairnessScore = 100
    /\ fpRet = NoCall
    /\ fpArgs = NoCall
    /\ fpSteps = 0

IdleCap == InitCap /\ balanceThreshold = DefaultBalanceThreshold

IdleMarket ==
    /\ InitMarket
    /\ baseValue = MarketUnit \div 2
    /\ volatility = 1
    /\ earn_rates = [ build_feature |-> 10, fix_bug |-> 7 ]
    /\ spend_costs = [ premium_theme |-> 50, custom_art |-> 20 ]

InitFairSpec == InitFair /\ IdleDetect /\ IdleCap /\ IdleMarket /\ InitDynamic /\ IdleBroadcaster
      /\ IdleReceiver /\ IdleHydrogen

InitDetectSpec == InitDetect /\ IdleFair /\ IdleCap /\ IdleMarket /\ InitDynamic /\ IdleBroadcaster
      /\ IdleReceiver /\ IdleHydrogen

InitCapSpec == InitCap /\ IdleFair /\ IdleDetect /\ IdleMarket /\ InitDynamic /\ IdleBroadcaster
      /\ IdleReceiver /\ IdleHydrogen

InitBalanceSpec == InitBalance /\ IdleFair /\ IdleDetect /\ IdleMarket /\ InitDynamic /\ IdleBroadcaster
      /\ IdleReceiver /\ IdleHydrogen

InitMarketSpec == InitMarket /\ IdleFair /\ IdleDetect /\ IdleCap /\ InitDynamic /\ IdleBroadcaster
      /\ IdleReceiver /\ IdleHydrogen

SpecFair == InitFairSpec /\ [][NextFair]_vars

SpecDetect == InitDetectSpec /\ [][NextDetect]_vars

SpecCap == InitCapSpec /\ [][NextCap]_vars

\* the capacitor left to repeated autoBalance calls, nothing else touching it
SpecBalance ==
    InitBalanceSpec /\ [][NextBalance]_vars /\ WF_vars(AutoBalance)

SpecMarket == InitMarketSpec /\ [][NextMarket]_vars

InitDynamicSpec ==
    InitDynamic /\ IdleFair /\ IdleDetect /\ IdleCap /\ IdleMarket
      /\ IdleBroadcaster /\ IdleReceiver /\ IdleHydrogen

InitBroadcasterSpec ==
    InitBroadcaster /\ IdleFair /\ IdleDetect /\ IdleCap /\ IdleMarket
      /\ InitDynamic /\ IdleReceiver /\ IdleHydrogen

SpecBroadcaster == InitBroadcasterSpec /\ [][NextBroadcaster]_vars

SpecDynamic == InitDynamicSpec /\ [][NextDynamic]_vars

InitReceiverSpec ==
    InitReceiver /\ IdleFair /\ IdleDetect /\ IdleCap /\ IdleMarket
      /\ InitDynamic /\ IdleBroadcaster /\ IdleHydrogen

SpecReceiver == InitReceiverSpec /\ [][NextReceiver]_vars

InitHydrogenSpec ==
    InitHydrogen /\ IdleFair /\ IdleDetect /\ IdleCap /\ IdleMarket
      /\ InitDynamic /\ IdleBroadcaster /\ IdleReceiver

SpecHydrogen == InitHydrogenSpec /\ [][NextHydrogen]_vars

-----------------------------------------------------------------------------
(* The fixed-point arithmetic is exact: every division the model performs   *)
(* leaves no remainder, and every recorded price is positive (so that the   *)
(* change-rate quotient is defined).                                        *)

ExactFair ==
    /\ \A i \in 1..Len(priceHistory) : priceHistory[i] > 0
    /\ fpSteps < MaxCalls /\ Len(priceHistory) > 0
         => priceHistory[Len(priceHistory)] % MaxChangeRateDen = 0

\* the seeded initial states are what validatePrice(1.00) calls produce
SeedsReachable ==
    \A n \in SeedCalls \ {0} :
        ValidateOutcomes(SeedHistory(n - 1), SeedPrice) =
            { [ hist  |-> SeedHistory(n),
                score |-> 100,
                ret   |-> [ op |-> "validatePrice", validated_price |-> 100,
                            is_fair |-> TRUE, issues |-> <<>>,
                            fairness_score |-> 100 ] ] }

ExactMarket ==
    mkSteps < MaxMarketSteps =>
        /\ currentValue % 4 = 0
        /\ (baseValue - currentValue) % StabilizationDen = 0
        /\ currentValue # 0

-----------------------------------------------------------------------------
(* Properties of FairPricing *)

HasValidation(ret) == ret.op \in {"validatePrice", "applyFairPricing"}

\* the record validatePrice returned in the call that produced ret
ValidationOf(ret) == IF ret.op = "applyFairPricing" THEN ret.validation ELSE ret

\* C1: the validated_price every validatePrice call returns lies in
\* [priceFloor, priceCeiling] = [0.01, 10000], also when the change-rate
\* limit replaced the bounds-clamped price.
C1_ValidatedPriceInBounds ==
    HasValidation(fpRet) =>
        /\ ValidationOf(fpRet).validated_price >= PriceFloorCents
        /\ ValidationOf(fpRet).validated_price <= PriceCeilingCents

\* a call clamped the price to the ceiling and the rate limit then replaced it
C1_Witness ==
    /\ fpRet.op = "validatePrice"
    /\ fpRet.issues = <<"price_too_high", "price_change_too_rapid">>

C3_HistoryBoundedFifo ==
    /\ [](Len(priceHistory) <= HistoryCap)
    /\ [][ fpSteps' = fpSteps + 1 =>
             /\ Len(priceHistory') =
                    IF Len(priceHistory) = HistoryCap THEN HistoryCap
                    ELSE Len(priceHistory) + 1
             /\ \A i \in 1..(Len(priceHistory') - 1) :
                    priceHistory'[i] =
                        IF Len(priceHistory) = HistoryCap
                        THEN priceHistory[i + 1] ELSE priceHistory[i]
             /\ 2 * Abs(ValidationOf(fpRet').validated_price * Unit
                        - priceHistory'[Len(priceHistory')]) <= Unit ]_vars

\* a call on a full history moved a price that is not the seed price from
\* the last place to the place before it
C3_Witness ==
    /\ Len(priceHistory) = HistoryCap
    /\ fpSteps >= 2
    /\ priceHistory[1] = SeedPrice
    /\ priceHistory[HistoryCap - 1] # SeedPrice
    /\ priceHistory[HistoryCap] # priceHistory[HistoryCap - 1]

\* C7 as stated: the fair_price returned by an applyFairPricing call differs
\* from the fair_price returned by the applyFairPricing call before it by at
\* most 25% of the earlier one.
C7_FairPriceStepBounded ==
    [][ ( /\ fpRet.op = "applyFairPricing"
          /\ fpRet'.op = "applyFairPricing"
          /\ fpSteps' = fpSteps + 1 )
        => MaxChangeRateDen * Abs(fpRet'.fair_price - fpRet.fair_price)
             <= fpRet.fair_price ]_vars

\* C10: after a validatePrice call the stored fairnessScore is
\* max(1 - 0.2 * n, 0) for the number n of issues of that call alone, lies in
\* [0, 1], is the score the call returns, and is_fair holds exactly when n = 0.
C10_FairnessScoreOfLastCall ==
    HasValidation(fpRet) =>
        LET n == Len(ValidationOf(fpRet).issues)
        IN  /\ fairnessScore = (IF 100 - 20 * n > 0 THEN 100 - 20 * n ELSE 0)
            /\ fairnessScore >= 0
            /\ fairnessScore <= 100
            /\ ValidationOf(fpRet).fairness_score = fairnessScore
            /\ ValidationOf(fpRet).is_fair = (n = 0)

\* a second call in a row recorded two issues
C10_Witness ==
    /\ fpSteps >= 2
    /\ fpRet.op = "validatePrice"
    /\ Len(fpRet.issues) = 2
    /\ fairnessScore = 60

\* C9 reads the arguments of the call back from fpArgs
C9_List(p, md) ==
    <<IF md.averagePrice = <<>> THEN p ELSE md.averagePrice[1],
      IF md.medianPrice = <<>> THEN p ELSE md.medianPrice[1]>>
    \o md.competitorPrices

C9_Count(list) == Cardinality({ i \in DOMAIN list : list[i] > 0 })

RECURSIVE C9_Sum(_, _)
C9_Sum(list, i) ==
    IF i = 0 THEN 0
    ELSE (IF list[i] > 0 THEN list[i] ELSE 0) + C9_Sum(list, i - 1)

\* an ensureFairMarket call leaves priceHistory and fairnessScore alone
C9_Frame ==
    [][ (fpArgs'.op = "ensureFairMarket" /\ fpSteps' = fpSteps)
        => UNCHANGED <<priceHistory, fairnessScore>> ]_vars

\* the result part of C9 as stated: with the mean of the positive values
\* among averagePrice, medianPrice and competitorPrices, a deviation above
\* 0.30 returns the mean as adjusted_price with adjusted = true, otherwise
\* the proposed price is returned unchanged.
C9_ResultIsMean ==
    (fpArgs.op = "ensureFairMarket" /\ fpRet.op = "ensureFairMarket") =>
        LET p    == fpArgs.proposedPrice
            list == C9_List(p, fpArgs.marketData)
            n    == C9_Count(list)
            sum  == C9_Sum(list, Len(list))
        IN  n > 0 =>
              IF 10 * Abs(n * p - sum) > 3 * sum
              THEN /\ "adjusted_price" \in DOMAIN fpRet
                   /\ fpRet.adjusted
                   /\ n * fpRet.adjusted_price = sum
              ELSE /\ "price" \in DOMAIN fpRet
                   /\ fpRet.price = p

\* C9 as stated: the result is as in C9_ResultIsMean, and ensureFairMarket
\* never modifies priceHistory or fairnessScore.
C9_EnsureReturnsMean == []C9_ResultIsMean /\ C9_Frame

\* the result part of C9 amended: a deviation above 0.30 returns the mean
\* rounded to two decimals (toFixed(2)) as adjusted_price with adjusted =
\* true, a deviation below 0.30 returns the proposed price unchanged, and a
\* deviation of 0.30 itself returns one or the other.
C9_ResultRoundedMean ==
    (fpArgs.op = "ensureFairMarket" /\ fpRet.op = "ensureFairMarket") =>
        LET p    == fpArgs.proposedPrice
            list == C9_List(p, fpArgs.marketData)
            n    == C9_Count(list)
            sum  == C9_Sum(list, Len(list))
            adjusted  == /\ "adjusted_price" \in DOMAIN fpRet
                         /\ fpRet.adjusted
                         /\ 2 * Abs(n * fpRet.adjusted_price - sum) <= n
            unchanged == /\ "price" \in DOMAIN fpRet
                         /\ fpRet.price = p
        IN  n > 0 =>
              /\ 10 * Abs(n * p - sum) > 3 * sum => adjusted
              /\ 10 * Abs(n * p - sum) < 3 * sum => unchanged
              /\ adjusted \/ unchanged

\* C9 amended: the result is as in C9_ResultRoundedMean, and ensureFairMarket
\* never modifies priceHistory or fairnessScore.
C9_EnsureReturnsRoundedMean == []C9_ResultRoundedMean /\ C9_Frame

\* on a non-empty history, a call was adjusted to a mean that is not a whole
\* number of cents
C9_Witness ==
    /\ fpArgs.op = "ensureFairMarket"
    /\ Len(priceHistory) > 0
    /\ "adjusted_price" \in DOMAIN fpRet
    /\ LET list == C9_List(fpArgs.proposedPrice, fpArgs.marketData)
       IN  C9_Count(list) * fpRet.adjusted_price # C9_Sum(list, Len(list))

-----------------------------------------------------------------------------
(* Properties of detectManipulation *)

\* five or more consecutive strict increases somewhere in seq
C8_HasRun(seq) ==
    \E k \in 1..(Len(seq) - 5) : \A j \in k..(k + 4) : seq[j + 1] > seq[j]

\* C8: on a sequence of at least 5 samples the monotonic-run pattern adds
\* exactly one to suspicious_patterns if the sequence contains a run of 5 or
\* more consecutive strict increases, and nothing otherwise; shorter
\* sequences hold no such run and report nothing.
C8_MonotonicRunCounted ==
    "manipulation_detected" \in DOMAIN dmRet =>
        IF Len(dmSeq) < 5
        THEN ~dmRet.manipulation_detected /\ ~C8_HasRun(dmSeq)
        ELSE dmRet.suspicious_patterns
               - (IF VolatilitySpike(dmSeq) THEN 1 ELSE 0)
             = (IF C8_HasRun(dmSeq) THEN 1 ELSE 0)

\* a run of five increases that does not start the sequence was counted, as
\* the only pattern
C8_Witness ==
    /\ Len(dmSeq) >= 7
    /\ dmSeq[2] <= dmSeq[1]
    /\ C8_HasRun(dmSeq)
    /\ "suspicious_patterns" \in DOMAIN dmRet
    /\ dmRet.suspicious_patterns = 1

-----------------------------------------------------------------------------
(* Properties of CapacitorModel *)

\* C4: whatever accumulateCharge, dischargeOnPurchase and autoBalance calls
\* (with activity levels and purchase sizes in their range 0-1) follow the
\* construction, 0 <= charge <= maxCharge.
C4_ChargeInRange == charge >= 0 /\ charge <= MaxCharge

\* accumulateCharge left the capacitor full
C4_Witness ==
    /\ capArgs.op = "accumulateCharge"
    /\ capArgs.activityLevel = 100
    /\ charge = MaxCharge

-----------------------------------------------------------------------------
(* Properties of ALCMarket *)

\* C5: adjustMarketValue(ratio) strictly increases currentValue and reports
\* high_demand when ratio > 1, strictly decreases it and reports
\* abundant_supply when ratio < 1, leaves it unchanged and reports stable
\* when ratio = 1.
C5_AdjustFollowsRatio ==
    [][ (mkArgs'.op = "adjustMarketValue" /\ mkSteps' = mkSteps + 1) =>
          LET ratio == mkArgs'.supplyDemandRatio
          IN  /\ ratio > 2 => /\ currentValue' > currentValue
                              /\ mkRet'.market_condition = "high_demand"
              /\ ratio < 2 => /\ currentValue' < currentValue
                              /\ mkRet'.market_condition = "abundant_supply"
              /\ ratio = 2 => /\ currentValue' = currentValue
                              /\ mkRet'.market_condition = "stable" ]_vars

\* a later call lowered the value on abundant supply
C5_Witness ==
    /\ mkSteps >= 2
    /\ mkArgs.op = "adjustMarketValue"
    /\ mkArgs.supplyDemandRatio < 2
    /\ mkRet.market_condition = "abundant_supply"
    /\ currentValue < baseValue

\* C6: from a positive configured value, currentValue stays > 0 through
\* adjustMarketValue calls (ratio > 0, volatility in (0, 1]) and
\* stabilizeMarket calls.
C6_ValuePositive == currentValue > 0

\* the value was driven down at full volatility and then stabilised
C6_Witness ==
    /\ mkSteps >= 3
    /\ volatility = 2
    /\ mkArgs.op = "stabilizeMarket"
    /\ 2 * currentValue < baseValue

\* C12: a stabilizeMarket call made while currentValue equals the configured
\* baseline leaves currentValue unchanged (and so does any number of them).
C12_StabilizeAtBaselineIsNoop ==
    [][ ( /\ mkArgs'.op = "stabilizeMarket"
          /\ mkSteps' = mkSteps + 1
          /\ currentValue = baseValue )
        => currentValue' = currentValue ]_vars

\* two or more calls were made and the last, a stabilizeMarket, left the
\* value at the baseline
C12_Witness ==
    /\ mkSteps >= 2
    /\ mkArgs.op = "stabilizeMarket"
    /\ currentValue = baseValue
    /\ mkRet.stabilized_value = mkRet.target_value

\* the result of the last calculateEarnings / calculateCost call is an error
\* exactly when the key is not in the table or its rate is zero, and carries
\* the configured rate otherwise
C11_ResultByTable ==
    /\ mkArgs.op = "calculateEarnings" =>
         LET k == mkArgs.activityType
         IN  IF k \notin DOMAIN earn_rates \/ earn_rates[k] = 0
             THEN "error" \in DOMAIN mkRet
             ELSE /\ "error" \notin DOMAIN mkRet
                  /\ mkRet.alc_earned = Num(earn_rates[k])
    /\ mkArgs.op = "calculateCost" =>
         LET k == mkArgs.itemType
         IN  IF k \notin DOMAIN spend_costs \/ spend_costs[k] = 0
             THEN "error" \in DOMAIN mkRet
             ELSE /\ "error" \notin DOMAIN mkRet
                  /\ mkRet.alc_cost = Num(spend_costs[k])

\* calculateEarnings and calculateCost leave the market state and the rate
\* tables alone
C11_Frame ==
    [][ mkArgs'.op \in {"calculateEarnings", "calculateCost"}
        => UNCHANGED <<currentValue, trendPercent, earn_rates, spend_costs>>
      ]_vars

\* C11: calculateEarnings(k) and calculateCost(k) return an error value when
\* k is absent from the rate table or maps to a zero rate and the configured
\* rate otherwise, and change neither currentValue, trendPercent nor the
\* rate tables.
C11_ErrorIffAbsent == []C11_ResultByTable /\ C11_Frame

-----------------------------------------------------------------------------
(* Properties of the capacitor's price multiplier and of autoBalance *)

\* the status the charge bands give
C13_Status ==
    IF charge > balanceThreshold THEN "high_charge"
    ELSE IF charge < MaxCharge - balanceThreshold THEN "low_charge"
    ELSE "balanced"

\* the multiplier of the band formulas, in units of 1/100000
C13_Formula ==
    IF C13_Status = "high_charge"
    THEN 100000 + (charge - balanceThreshold) * 2
    ELSE IF C13_Status = "low_charge"
    THEN 100000 - ((MaxCharge - balanceThreshold) - charge) * 2
    ELSE 100000

\* C13 as stated: the multiplier reported is the band formula's value, and
\* applyCapacitorPricing returns basePrice times that value.
C13_MultiplierIsFormula ==
    /\ capArgs.op \in {"accumulateCharge", "dischargeOnPurchase"} =>
         /\ capRet.status = C13_Status
         /\ 100 * capRet.price_impact.multiplier = C13_Formula
    /\ capArgs.op = "applyCapacitorPricing" =>
         /\ capRet.charge_status = C13_Status
         /\ 100 * capRet.price_multiplier = C13_Formula
         /\ Abs(100000 * capRet.adjusted_price
                  - capRet.base_price * C13_Formula) <= 50000

\* C13 amended: the multiplier reported is the band formula's value rounded
\* to three decimals (exactly 1.000 when balanced), and applyCapacitorPricing
\* returns basePrice times that rounded multiplier, to the nearest cent.
C13_MultiplierIsRoundedFormula ==
    /\ capArgs.op \in {"accumulateCharge", "dischargeOnPurchase"} =>
         /\ capRet.status = C13_Status
         /\ Abs(100 * capRet.price_impact.multiplier - C13_Formula) <= 50
         /\ C13_Status = "balanced" => capRet.price_impact.multiplier = 1000
    /\ capArgs.op = "applyCapacitorPricing" =>
         /\ capRet.charge_status = C13_Status
         /\ Abs(100 * capRet.price_multiplier - C13_Formula) <= 50
         /\ C13_Status = "balanced" => capRet.price_multiplier = 1000
         /\ Abs(1000 * capRet.adjusted_price
                  - capRet.base_price * capRet.price_multiplier) <= 500

\* a price of 90.00 was adjusted at high charge with a multiplier that the
\* rounding changed
C13_Witness ==
    /\ capArgs.op = "applyCapacitorPricing"
    /\ capArgs.basePrice = 9000
    /\ capRet.charge_status = "high_charge"
    /\ 100 * capRet.price_multiplier # C13_Formula

\* C14: an autoBalance call changes charge by at most 0.02, never takes it
\* further from 0.5, never takes it across 0.5, and leaves a charge of 0.5
\* unchanged.
C14_BalanceStepBounded ==
    [][ (capArgs'.op = "autoBalance" /\ abCalls' = abCalls + 1) =>
          /\ Abs(charge' - charge) <= BalanceRate
          /\ Abs(charge' - TargetCharge) <= Abs(charge - TargetCharge)
          /\ (charge - TargetCharge) * (charge' - TargetCharge) >= 0
          /\ charge = TargetCharge => charge' = charge ]_vars

\* autoBalance was called less than 0.02 away from 0.5 and landed on 0.5
C14_Witness ==
    /\ capArgs.op = "autoBalance"
    /\ capArgs.charge_before # TargetCharge
    /\ Abs(capArgs.charge_before - TargetCharge) < BalanceRate
    /\ charge = TargetCharge

\* the calls that cover the largest distance from 0.5: 0.5 / 0.02
ConvergenceCalls == (MaxCharge - TargetCharge) \div BalanceRate

\* charge is 0.5 and the status balanced
C20_AtTarget ==
    /\ charge = TargetCharge
    /\ MaxCharge - balanceThreshold <= charge
    /\ charge <= balanceThreshold

\* C20: left to repeated autoBalance calls from any charge in [0, 1], the
\* charge is 0.5 and balanced after at most 25 calls, is eventually 0.5 for
\* good, and once 0.5 is never moved by a further call.
C20_BalanceConverges ==
    /\ [](abCalls >= ConvergenceCalls => C20_AtTarget)
    /\ <>[]C20_AtTarget
    /\ [][charge = TargetCharge => charge' = TargetCharge]_vars

\* the 25th call, made away from 0.5, reached it
C20_Witness ==
    /\ abCalls = ConvergenceCalls
    /\ capArgs.charge_before # TargetCharge
    /\ C20_AtTarget

-----------------------------------------------------------------------------
(* Composition of applyFairPricing *)

\* C15: an applyFairPricing call records exactly one price, the one its
\* validatePrice accepted (the oldest entry making room when the history is
\* full); its market_check is ensureFairMarket of the validated price and the
\* call's marketData; its manipulation_check is detectManipulation of the last
\* 10 entries of the history including the new one; and the market-adjusted
\* fair_price is not what the history records.
C15_ApplyComposes ==
    [][ (fpArgs'.op = "applyFairPricing" /\ fpSteps' = fpSteps + 1) =>
          LET n == Len(priceHistory')
              shift == Len(priceHistory) + 1 - n
              v == fpRet'.validation.validated_price
              mc == fpRet'.market_check
          IN  /\ n = Min2(Len(priceHistory) + 1, HistoryCap)
              /\ \A i \in 1..(n - 1) :
                    priceHistory'[i] = priceHistory[i + shift]
              /\ v \in ToFixed2(priceHistory'[n])
              /\ mc \in EnsureFairMarket(v, fpArgs'.marketData)
              /\ fpRet'.manipulation_check =
                    DetectManipulation(LastN(priceHistory', RecentWindow))
              /\ fpRet'.fair_price = (IF "adjusted_price" \in DOMAIN mc
                                      THEN mc.adjusted_price ELSE v)
              /\ fpRet'.fair_price # v
                    => fpRet'.fair_price \notin ToFixed2(priceHistory'[n])
      ]_vars

\* an applyFairPricing call on a full history whose price the market check
\* replaced and whose window of 10 showed a suspicious pattern
C15_Witness ==
    /\ fpArgs.op = "applyFairPricing"
    /\ Len(priceHistory) = HistoryCap
    /\ "adjusted_price" \in DOMAIN fpRet.market_check
    /\ fpRet.fair_price # fpRet.validation.validated_price
    /\ fpRet.manipulation_check.manipulation_detected

-----------------------------------------------------------------------------
(* Properties of DynamicPricing *)

\* table[key] for a key the table lists, the default for any other key
C16_KnownOr(table, key, default) ==
    IF key \in DOMAIN table THEN table[key] ELSE default

\* C16: calculateArtPrice uses rate 10 for an unknown complexity and factor
\* 1.0 for an unknown demand, calculateTokenValue rate 10 for an unknown
\* utility and multiplier 1.0 for an unknown type, so that the result is the
\* rounded product of the listed or default values (high / 3 h / high: 90).
C16_UnknownCategoryDefaults ==
    /\ dpArgs.op = "calculateArtPrice" =>
         LET rate == C16_KnownOr(ComplexityRates,
                        FieldOr(dpArgs.params.complexity, "medium"), 10)
             factor == C16_KnownOr(DemandMultipliers,
                          FieldOr(dpArgs.params.demand, "normal"), 10)
             hours == FieldOr(dpArgs.params.timeSpent, 1)
         IN  /\ dpRet.base_alc = Num(rate)
             /\ dpRet.final_price_alc =
                   Num((2 * rate * hours * factor + 10) \div 20)
    /\ dpArgs.op = "calculateTokenValue" =>
         LET rate == C16_KnownOr(UtilityRates,
                        FieldOr(dpArgs.params.utility, "medium"), 10)
             mult == C16_KnownOr(TypeMultipliers,
                        FieldOr(dpArgs.params.type, "standard"), 1)
             bonus == dpRet.scarcity_bonus
         IN  dpRet.base_value_alc = Num((rate * mult * bonus + 1) \div 2)

\* C17: calculateArtPrice, calculateTokenValue, calculateFeatureCost,
\* calculateTransactionFee and validateFairPricing leave demandMultiplier and
\* priceHistory unchanged; adjustRealTime(supply, demand, recentActivity)
\* leaves demandMultiplier = (demand / supply) * (1 + recentActivity / 1000)
\* and priceHistory unchanged.
C17_OnlyAdjustRealTimeWrites ==
    [][ /\ dpArgs'.op \in {"calculateArtPrice", "calculateTokenValue",
                           "calculateFeatureCost", "calculateTransactionFee",
                           "validateFairPricing"}
           => UNCHANGED <<demandMultiplier, dpPriceHistory>>
        /\ dpArgs'.op = "adjustRealTime"
           => /\ demandMultiplier'.num * (dpArgs'.supply * 10)
                   = demandMultiplier'.den
                       * (dpArgs'.demand * (10 + dpArgs'.recentActivity))
              /\ UNCHANGED dpPriceHistory
      ]_vars

\* a formula was evaluated after adjustRealTime had raised the multiplier
\* for recent activity, and the multiplier is still there
C17_Witness ==
    /\ dpArgs.op = "calculateArtPrice"
    /\ dpRet.final_price_alc = Num(90)
    /\ demandMultiplier.num * 10 = demandMultiplier.den * 18

-----------------------------------------------------------------------------
(* Properties of PriceBroadcaster *)

\* the last n entries of sentUpdates
C18_LastUpdates(updates, n) == SubSeq(updates, Len(updates) - n + 1, Len(updates))

\* C18: cascadePriceUpdates broadcasts to every registered target when the
\* change exceeds the domino threshold (targets_updated is the number of
\* targets and sentUpdates ends with one update per target), and broadcasts to
\* none, leaving sentUpdates and every lastSent unchanged, when the change
\* does not exceed it.
C18_CascadeIffExceeds ==
    [][ (pbArgs'.op = "cascadePriceUpdates" /\ pbSteps' = pbSteps + 1) =>
          LET change == pbArgs'.priceChangeData.changePercent
              n == Cardinality(DOMAIN broadcastTargets)
          IN  IF Abs(change) > DominoThreshold(dominoConfigured)
              THEN /\ pbRet'.cascade_triggered
                   /\ pbRet'.targets_updated = n
                   /\ Len(sentUpdates') = Min2(Len(sentUpdates) + n, SentCap)
                   /\ { u.target : u \in
                          { C18_LastUpdates(sentUpdates', n)[i] : i \in 1..n } }
                        = DOMAIN broadcastTargets
                   /\ \A t \in DOMAIN broadcastTargets :
                         broadcastTargets'[t].lastSent = <<now>>
              ELSE /\ ~pbRet'.cascade_triggered
                   /\ UNCHANGED <<sentUpdates, broadcastTargets>>
      ]_vars

\* what conditionalBroadcast sends is recorded last in sentUpdates and
\* stamps the target's lastSent
C19_Recorded(target) ==
    /\ sentUpdates' # <<>>
    /\ sentUpdates'[Len(sentUpdates')].target = target
    /\ sentUpdates'[Len(sentUpdates')].timestamp = now
    /\ broadcastTargets'[target].lastSent = <<now>>

\* C19: conditionalBroadcast sends to a real_time target on every call; to an
\* every_5_minutes target exactly when forceUpdate is set, the target was
\* never sent to, or more than 5 minutes passed since its lastSent; to an
\* unknown target never, returning sent: false with an error; and whenever it
\* sends nothing, sentUpdates and every lastSent are unchanged.
C19_FrequencyHonoured ==
    [][ (pbArgs'.op = "conditionalBroadcast" /\ pbSteps' = pbSteps + 1) =>
          LET target == pbArgs'.target
              known == target \in DOMAIN broadcastTargets
          IN  /\ ~known => ~pbRet'.sent /\ "error" \in DOMAIN pbRet'
              /\ known /\ broadcastTargets[target].frequency = "real_time"
                   => pbRet'.sent
              /\ known /\ broadcastTargets[target].frequency = "every_5_minutes"
                   => ( pbRet'.sent <=>
                          \/ pbArgs'.forceUpdate
                          \/ broadcastTargets[target].lastSent = <<>>
                          \/ now - broadcastTargets[target].lastSent[1]
                               > FiveMinutes )
              /\ pbRet'.sent => C19_Recorded(target)
              /\ ~pbRet'.sent => UNCHANGED <<sentUpdates, broadcastTargets>>
      ]_vars

\* an every_5_minutes target, sent to before, was asked for again without
\* forceUpdate exactly five minutes later, and nothing was sent
C19_Witness ==
    /\ pbArgs.op = "conditionalBroadcast"
    /\ pbArgs.target = "dash-hub"
    /\ ~pbArgs.forceUpdate
    /\ ~pbRet.sent
    /\ "time_since_last" \in DOMAIN pbRet
    /\ pbRet.time_since_last = <<FiveMinutes>>

-----------------------------------------------------------------------------
(* PriceReceiver claims *)

\* what receiveSignal returned in the last call, directly or inside
\* processSignal's result
C21_Received ==
    IF "signal_received" \in DOMAIN prRet' THEN prRet'.signal_received
    ELSE prRet'

\* the entry receiveSignal records for the signal of the last call
C21_Entry(e) ==
    LET signal == prArgs'.signal
    IN  /\ e.source = signal.source
        /\ e.event = signal.event
        /\ e.data = signal.data
        /\ e.handler = signalHandlers[HandlerKey(signal.source,
                                                 signal.event)][1]

\* C21: receiveSignal (called directly or by processSignal) records a signal
\* in receivedSignals only when a handler is registered for its source:event
\* key; for an unregistered key it returns received: false with an error and
\* leaves receivedSignals unchanged; receivedSignals never holds more than
\* 100 signals, and the signal evicted at the cap is the oldest.
C21_RecordsOnlyRegistered ==
    /\ [](Len(receivedSignals) <= SignalCap)
    /\ [][ prSteps' = prSteps + 1 =>
             LET signal == prArgs'.signal
                 key == HandlerKey(signal.source, signal.event)
                 n == Len(receivedSignals)
             IN  /\ key \notin DOMAIN signalHandlers =>
                       /\ ~C21_Received.received
                       /\ "error" \in DOMAIN C21_Received
                       /\ receivedSignals' = receivedSignals
                 /\ receivedSignals' # receivedSignals =>
                       /\ key \in DOMAIN signalHandlers
                       /\ C21_Received.received
                       /\ C21_Entry(receivedSignals'[Len(receivedSignals')])
                       /\ IF n < SignalCap
                          THEN /\ Len(receivedSignals') = n + 1
                               /\ \A i \in 1..n :
                                     receivedSignals'[i] = receivedSignals[i]
                          ELSE /\ Len(receivedSignals') = SignalCap
                               /\ \A i \in 1..(n - 1) :
                                     receivedSignals'[i]
                                       = receivedSignals[i + 1]
                 /\ C21_Received.received =>
                       receivedSignals' # receivedSignals
          ]_vars

\* a registered signal arrived with receivedSignals full: the oldest signal
\* is gone, the second oldest is now first and the new one last
C21_Witness ==
    /\ prSteps = 2
    /\ prArgs.op = "receiveSignal"
    /\ prRet.received
    /\ Len(receivedSignals) = SignalCap
    /\ receivedSignals[1] = SeedSignal(2)
    /\ receivedSignals[SignalCap].data = [ quantity |-> 2 ]
    /\ receivedSignals[SignalCap - 1].event = "art_created"

-----------------------------------------------------------------------------
(* HydrogenSync claims *)

\* bonds are made active and only breakBond clears the flag, so the broken
\* bonds are the inactive ones
C22_Broken(i) == ~hydrogenBonds[i].active

\* C22: a bond that breakBond has broken stays in hydrogenBonds, inactive and
\* with the same syncCount, through every later operation; a later
\* syncViaHydrogenBond with its id returns synced: false with the error
\* 'Bond inactive'; breakBond leaves the bond it names inactive; and
\* syncViaHydrogenBond with an id no bond has returns 'Bond not found' and
\* changes no bond.
C22_BrokenStaysBroken ==
    [][ /\ \A i \in DOMAIN hydrogenBonds :
              C22_Broken(i) =>
                /\ i \in DOMAIN hydrogenBonds'
                /\ hydrogenBonds'[i].id = hydrogenBonds[i].id
                /\ ~hydrogenBonds'[i].active
                /\ hydrogenBonds'[i].syncCount = hydrogenBonds[i].syncCount
        /\ (hsArgs'.op = "breakBond" /\ hsSteps' = hsSteps + 1) =>
              \/ \A i \in DOMAIN hydrogenBonds :
                    hydrogenBonds[i].id # hsArgs'.bondId
              \/ \E i \in DOMAIN hydrogenBonds' :
                    /\ hydrogenBonds'[i].id = hsArgs'.bondId
                    /\ ~hydrogenBonds'[i].active
        /\ (hsArgs'.op = "syncViaHydrogenBond" /\ hsSteps' = hsSteps + 1) =>
              /\ (\E i \in DOMAIN hydrogenBonds :
                     /\ hydrogenBonds[i].id = hsArgs'.bondId
                     /\ C22_Broken(i))
                   => /\ ~hsRet'.synced
                      /\ hsRet'.error = "Bond inactive"
              /\ (\A i \in DOMAIN hydrogenBonds :
                     hydrogenBonds[i].id # hsArgs'.bondId)
                   => /\ ~hsRet'.synced
                      /\ hsRet'.error = "Bond not found"
                      /\ hydrogenBonds' = hydrogenBonds
      ]_vars

\* a bond that had synced once was broken, and a sync over it was then
\* refused
C22_Witness ==
    /\ hsArgs.op = "syncViaHydrogenBond"
    /\ ~hsRet.synced
    /\ hsRet.error = "Bond inactive"
    /\ \E i \in DOMAIN hydrogenBonds :
          /\ hydrogenBonds[i].id = hsArgs.bondId
          /\ ~hydrogenBonds[i].active
          /\ hydrogenBonds[i].syncCount = 1

\* syncQueue is ordered high before normal before low
C23_QueueOrdered ==
    \A i, j \in DOMAIN syncQueue :
       i < j => PriorityOrder[syncQueue[i].priority]
                  <= PriorityOrder[syncQueue[j].priority]

\* queueSync puts the new item behind the items of its own or a higher
\* priority and before the others, which keep their order
C23_QueuedInOrder ==
    (hsArgs'.op = "queueSync" /\ hsSteps' = hsSteps + 1) =>
        \E p \in DOMAIN syncQueue' :
           /\ Len(syncQueue') = Len(syncQueue) + 1
           /\ syncQueue'[p].id = hsRet'.sync_id
           /\ syncQueue'[p].priority = hsArgs'.priority
           /\ \A i \in 1..(p - 1) :
                 /\ syncQueue'[i] = syncQueue[i]
                 /\ PriorityOrder[syncQueue[i].priority]
                      <= PriorityOrder[hsArgs'.priority]
           /\ \A i \in (p + 1)..Len(syncQueue') :
                 /\ syncQueue'[i] = syncQueue[i - 1]
                 /\ PriorityOrder[syncQueue[i - 1].priority]
                      > PriorityOrder[hsArgs'.priority]

\* processSyncQueue handles the items in queue order, empties the queue and
\* reports the prior queue length
C23_ProcessedInOrder ==
    (hsArgs'.op = "processSyncQueue" /\ hsSteps' = hsSteps + 1) =>
        /\ syncQueue' = <<>>
        /\ hsRet'.processed = Len(syncQueue)
        /\ syncQueue # <<>> =>
              /\ Len(hsRet'.results) = Len(syncQueue)
              /\ \A i \in DOMAIN syncQueue :
                    hsRet'.results[i].sync_id = syncQueue[i].id

\* every processed item synced over a bond of its source/target pair
C23_AllSynced ==
    (hsArgs'.op = "processSyncQueue" /\ hsSteps' = hsSteps + 1
       /\ syncQueue # <<>>) =>
        \A i \in DOMAIN syncQueue :
           LET result == hsRet'.results[i].result
           IN  /\ result.synced
               /\ result.from = syncQueue[i].source
               /\ result.to = syncQueue[i].target
               /\ \E k \in DOMAIN hydrogenBonds' :
                     /\ hydrogenBonds'[k].id = result.bond_id
                     /\ hydrogenBonds'[k].source = syncQueue[i].source
                     /\ hydrogenBonds'[k].target = syncQueue[i].target

\* C23: after any sequence of queueSync calls with priorities high, normal
\* and low, syncQueue is ordered high before normal before low with items of
\* equal priority in insertion order; processSyncQueue handles the items in
\* exactly that order, leaves syncQueue empty, reports processed equal to
\* the prior queue length, and every processed item yields a successful sync
\* on an existing or newly created bond for its source/target pair.
C23_QueueProcessedInPriorityOrder ==
    /\ []C23_QueueOrdered
    /\ [][C23_QueuedInOrder /\ C23_ProcessedInOrder /\ C23_AllSynced]_vars

====
